---------------------------- MODULE Spec2Model ----------------------------
(***************************************************************************)
(* A model of gh-issue-sync's pull reconciler (internal/app/pull.go) and   *)
(* of the record store it reads and writes (internal/app/storage.go).      *)
(*                                                                         *)
(* The store is a set of local record files (open/ and closed/), one       *)
(* original snapshot per identifier, the persisted configuration and the   *)
(* four auxiliary caches.  Two invocations of Pull run against the same    *)
(* store root, each stepping through the statements of App.Pull.           *)
(***************************************************************************)
EXTENDS Naturals, Sequences, FiniteSets, TLC

\* The absent string (no error, no lock holder) and the absent record.
None == "none"
Nil == [nil |-> TRUE]

\* No helper function is being called.
NoCall == [fn |-> "none"]

(***************************************************************************)
(* Bounds of the model.                                                    *)
(***************************************************************************)
\* Polls of a held lock a waiting invocation makes before its timeout expires.
MaxRetry == 1

Procs == {"p1", "p2"}
\* Two canonical identifiers and one temporary local identifier.
Ids == {"1", "2", "T1"}
Titles == {"Bug", "Fix"}
Dirs == {"open", "closed"}
CacheNames == {"labels", "milestones", "issuetypes", "projects"}
NoTime == 0

(***************************************************************************)
(* Records.  An issue is [number, title, state, syncedAt]; title stands    *)
(* for every user-editable field that is not the lifecycle state.          *)
(***************************************************************************)
Issue(n, t, s, at) == [number |-> n, title |-> t, state |-> s, syncedAt |-> at]

\* strings.ToLower on the lifecycle states the remote service returns.
ToLower(s) ==
    CASE s = "OPEN" -> "open"
      [] s = "CLOSED" -> "closed"
      [] OTHER -> s

\* issue.EqualIgnoringSyncedAt: every field but SyncedAt participates.
EqualIgnoringSyncedAt(x, y) ==
    /\ x.number = y.number
    /\ x.title = y.title
    /\ x.state = y.state

\* The slug of a title, as issue.PathFor puts it in a file name.
Slug(t) ==
    CASE t = "Bug" -> "bug"
      [] t = "Fix" -> "fix"
      [] OTHER -> "x"

\* issue.PathFor(dir, number, title): <dir>/<number>-<slug>.md
PathFor(dir, n, t) == [dir |-> dir, number |-> n, slug |-> Slug(t)]

\* dirForState / the targetDir choice of Pull: closed/ only for "closed".
dirForState(s) == IF s = "closed" THEN "closed" ELSE "open"

(***************************************************************************)
(* The state.                                                              *)
(***************************************************************************)
VARIABLES
    remote,     \* the remote service: Ids -> raw record, or Nil
    opts,       \* PullOptions and args of the invocations: [force, all, args, label]
    faults,     \* the operations that fail in this environment
    files,      \* local record files: a set of [path, parses, issue]
    originals,  \* original snapshots: Ids -> Issue, or Nil
    config,     \* the persisted configuration: [initialized, lastFullPull]
    caches,     \* CacheNames -> SyncedAt of the cache file (NoTime: absent)
    lock,       \* holder of <sync-dir>/lock, or None
    clock,      \* the wall clock a.Now() reads
    pull,       \* Procs -> the locals of that invocation of App.Pull
    call        \* a call of one of the helper functions: its input and result

vars == <<remote, opts, faults, files, originals, config, caches, lock, clock,
          pull, call>>
pullVars == <<remote, opts, faults, files, originals, config, caches, lock,
              clock, pull>>
store == <<files, originals, config, caches>>
env == <<remote, opts, faults>>

\* The operation `kind` on `target` fails: a remote call returns an error, a
\* write or rename of a file is refused.
Fails(kind, target) == <<kind, target>> \in faults

\* What an invocation notes when a fetch of records fails and the pull goes
\* on without them.
Missed(kind, target) == IF Fails(kind, target) THEN {"missed"} ELSE {}


(***************************************************************************)
(* The record store (storage.go) over the set of files.                    *)
(***************************************************************************)
File(path, iss) == [path |-> path, parses |-> TRUE, issue |-> iss]

\* Order of an identifier under sort.Strings / os.ReadDir's name order.
IdRank(n) ==
    CASE n = "1" -> 1
      [] n = "2" -> 2
      [] OTHER -> 3

\* Position of a file in loadLocalIssuesWithErrors' scan: open/ before
\* closed/, each directory in name order.
ScanRank(path) ==
    (IF path.dir = "open" THEN 0 ELSE 100)
        + 10 * IdRank(path.number) + (IF path.slug = "bug" THEN 1 ELSE 2)

IsLocalNever(n) == FALSE

\* issue.Number.IsLocal(): the identifier is a temporary local one.
IsLocal(n) == n \notin {"1", "2"}

\* The IssueFile loadLocalIssuesWithErrors builds for a file that parses:
\* the state of the record is the state of its directory.
IssueFile(f) ==
    [Issue |-> [f.issue EXCEPT !.state = f.path.dir], Path |-> f.path,
     State |-> f.path.dir]

\* ParseError{Path: relPath, Err: err} for a file issue.ParseFile rejects.
ParseError(f) == [Path |-> f.path, Err |-> "malformed"]

\* A load that stops at the first file that does not parse.
loadLocalIssuesUntilError(fs) ==
    LET bad == {g \in fs : ~g.parses}
    IN  [Issues |-> {IssueFile(f) : f \in
                        {g \in fs : g.parses /\ \A h \in bad :
                                        ScanRank(g.path) < ScanRank(h.path)}},
         Errors |-> {ParseError(f) : f \in bad}]

loadLocalIssuesWithErrors(fs) ==
    [Issues |-> {IssueFile(f) : f \in {g \in fs : g.parses}},
     Errors |-> {ParseError(f) : f \in {g \in fs : ~g.parses}}]

\* loadLocalIssues: the first parse error fails the whole load.
loadLocalIssues(fs) ==
    LET result == loadLocalIssuesWithErrors(fs)
    IN  IF result.Errors # {}
        THEN [Issues |-> {}, err |-> TRUE]
        ELSE [Issues |-> result.Issues, err |-> FALSE]

\* localByNumber: a map filled in scan order, so the last file of an
\* identifier wins.
LocalByNumber(issues) ==
    [n \in Ids |->
        LET mine == {x \in issues : x.Issue.number = n}
        IN  IF mine = {} THEN Nil
            ELSE CHOOSE x \in mine :
                    \A y \in mine : ScanRank(y.Path) <= ScanRank(x.Path)]

readOriginalIssue(origs, n) == origs[n]

writeOriginalIssueSkipped(origs, iss) == origs

writeOriginalIssue(origs, iss) == [origs EXCEPT ![iss.number] = iss]

\* issue.WriteFile(path, issue): create or overwrite the file at path.
WriteFile(fs, path, iss) ==
    {f \in fs : f.path # path} \cup {File(path, iss)}

RenameKeepingOld(fs, old, new) ==
    {f \in fs : f.path # new}
        \cup {[f EXCEPT !.path = new] : f \in {g \in fs : g.path = old}}

\* os.Rename(old, new): the file at old replaces whatever is at new.
Rename(fs, old, new) ==
    {f \in fs : f.path # old /\ f.path # new}
        \cup {[f EXCEPT !.path = new] : f \in {g \in fs : g.path = old}}

(***************************************************************************)
(* The remote client (ghcli), as Pull consumes it.                         *)
(***************************************************************************)
RECURSIVE SeqOfIds(_)
\* The identifiers of a set as a sequence in ascending order.
SeqOfIds(S) ==
    IF S = {} THEN <<>>
    ELSE LET n == CHOOSE x \in S : \A y \in S : IdRank(x) <= IdRank(y)
         IN  <<n>> \o SeqOfIds(S \ {n})

RemoteIssue(n) == Issue(n, remote[n].title, remote[n].state, NoTime)

\* The records that carry the label of a label filter: those titled "Bug"
\* (the title stands for every editable field, the labels among them).
HasLabel(r, label) == label = None \/ r.title = "Bug"

\* client.ListIssuesWithRelationships(state, label): the records in that
\* state that carry the label, when one is asked for.
ListIssues(state, label) ==
    LET hit == {n \in Ids : /\ remote[n] # Nil
                            /\ (state = "all" \/ ToLower(remote[n].state) = state)
                            /\ HasLabel(remote[n], label)}
        ids == SeqOfIds(hit)
    IN  [i \in 1..Len(ids) |-> RemoteIssue(ids[i])]

\* client.GetIssue(n) returns the record: it exists and the call succeeds.
GetIssueOk(n) == remote[n] # Nil /\ ~Fails("get", n)

\* client.GetIssuesBatch(numbers): the records among numbers that exist.
GetIssuesBatch(numbers) == {n \in numbers : remote[n] # Nil}

RECURSIVE Perms(_)
\* Every order in which Go may range over a map with these keys.
Perms(S) ==
    IF S = {} THEN {<<>>}
    ELSE UNION {{<<n>> \o q : q \in Perms(S \ {n})} : n \in S}

SeqRange(q) == {q[i] : i \in 1..Len(q)}

RECURSIVE InsertSorted(_, _)
InsertSorted(n, q) ==
    IF q = <<>> THEN <<n>>
    ELSE IF IdRank(n) <= IdRank(Head(q)) THEN <<n>> \o q
    ELSE <<Head(q)>> \o InsertSorted(n, Tail(q))

RECURSIVE SortStrings(_)
\* sort.Strings
SortStrings(q) ==
    IF q = <<>> THEN <<>> ELSE InsertSorted(Head(q), SortStrings(Tail(q)))

(***************************************************************************)
(* One invocation of App.Pull.                                             *)
(***************************************************************************)
PullInit ==
    [pc |-> "idle", err |-> None, tries |-> 0, turn |-> 0, now |-> NoTime,
     toFetch |-> {}, listTask |-> "idle", batchTask |-> "idle",
     listCh |-> Nil, batchCh |-> Nil,
     remoteIssues |-> <<>>, idx |-> 1, localByNumber |-> [n \in Ids |-> Nil],
     conflicts |-> <<>>, unchanged |-> 0, reported |-> <<>>, told |-> FALSE,
     orphaned |-> <<>>, oidx |-> 1, out |-> {}, did |-> {}, entry |-> Nil,
     via |-> <<>>, asked |-> {}]

\* The store as a value, for comparing it across a run.
Snapshot ==
    [files |-> files, originals |-> originals, config |-> config,
     caches |-> caches]

\* A step of invocation p: its locals change, no helper call is involved.
Set(p, upd) == pull' = [pull EXCEPT ![p] = upd] /\ UNCHANGED call

ReturnWithoutDefer(loc, e) ==
    [loc EXCEPT !.pc = IF e = None THEN "release" ELSE "done", !.err = e]

\* `return err` after the lock is held: the deferred Release runs next.
Return(loc, e) == [loc EXCEPT !.pc = "release", !.err = e]


\* Lines 19-24: loadConfig; a store that was never initialised fails here,
\* before the lock is asked for.
Start(p) ==
    /\ pull[p].pc = "idle"
    /\ IF ~config.initialized
       THEN Set(p, [pull[p] EXCEPT !.pc = "done", !.err = "not initialized"])
       ELSE Set(p, [pull[p] EXCEPT !.pc = "acquire"])
    /\ UNCHANGED <<env, store, lock, clock>>

\* lock.Acquire finds the lock free and takes it.
LockAvailable == lock = None

\* Lines 28-30: what Pull does when lock.Acquire returns an error.
OnLockErrorIgnored(p) ==
    Set(p, [pull[p] EXCEPT !.pc = "load1", !.err = "locked", !.entry = Snapshot])

OnLockError(p) ==
    Set(p, [pull[p] EXCEPT !.pc = "done", !.err = "locked"])

\* Lines 26-31: lock.Acquire(p.SyncDir, lock.DefaultTimeout).  The lock is
\* polled while it is held, until the timeout.
Acquire(p) ==
    /\ pull[p].pc = "acquire"
    /\ \/ /\ LockAvailable
          /\ lock' = p
          /\ clock' = clock + 1
          /\ Set(p, [pull[p] EXCEPT !.pc = "load1", !.turn = clock + 1,
                                      !.entry = Snapshot])
       \/ /\ ~LockAvailable
          /\ pull[p].tries < MaxRetry
          /\ Set(p, [pull[p] EXCEPT !.tries = @ + 1])
          /\ UNCHANGED <<lock, clock>>
       \/ /\ ~LockAvailable
          /\ pull[p].tries = MaxRetry
          /\ OnLockError(p)
          /\ UNCHANGED <<lock, clock>>
    /\ UNCHANGED <<env, store>>

\* Line 31, `defer lck.Release()`: runs when the function body has returned.
Release(p) ==
    /\ pull[p].pc = "release"
    /\ lock' = IF lock = p THEN None ELSE lock
    /\ Set(p, [pull[p] EXCEPT !.pc = "done"])
    /\ UNCHANGED <<env, store, clock>>

\* Lines 36-39 and 64-106: the first load of the local records, the
\* identifiers to batch-fetch, and the start of the two fetch tasks.
LoadLocal(p) ==
    /\ pull[p].pc = "load1"
    /\ LET loaded == loadLocalIssues(files)
           toFetch == IF opts.all THEN {}
                      ELSE {x.Issue.number :
                              x \in {y \in loaded.Issues : ~IsLocal(y.Issue.number)}}
       IN  IF loaded.err
           THEN Set(p, Return(pull[p], "load"))
           ELSE IF Len(opts.args) > 0
           THEN Set(p, [pull[p] EXCEPT !.pc = "getargs"])
           ELSE Set(p, [pull[p] EXCEPT !.pc = "recvList", !.toFetch = toFetch,
                                       !.listTask = "running",
                                       !.batchTask = "running"])
    /\ UNCHANGED <<env, store, lock, clock>>

\* Lines 44-62: fetch exactly the requested identifiers; any failed get
\* fails the pull.
FetchArgs(p) ==
    /\ pull[p].pc = "getargs"
    /\ IF \E i \in 1..Len(opts.args) : ~GetIssueOk(opts.args[i])
       THEN Set(p, Return([pull[p] EXCEPT !.did = @ \cup {"remote"},
                                          !.asked = @ \cup SeqRange(opts.args)],
                          "get"))
       ELSE Set(p, [pull[p] EXCEPT
                      !.pc = "load2", !.did = @ \cup {"remote"},
                      !.asked = @ \cup SeqRange(opts.args),
                      !.via = [i \in 1..Len(opts.args) |-> "get"],
                      !.remoteIssues =
                          [i \in 1..Len(opts.args) |-> RemoteIssue(opts.args[i])]])
    /\ UNCHANGED <<env, store, lock, clock>>

SendWhenReceiving(loc, ch) ==
    loc.pc = (IF ch = "listCh" THEN "recvList" ELSE "recvBatch")

\* Lines 91-92: listCh and batchCh are channels with a buffer of one, so a
\* send proceeds as soon as the buffer is empty, receiver or not.
CanSend(loc, ch) == loc[ch] = Nil

\* Lines 94-97: the list task; it sends its one result on listCh.
ListTask(p) ==
    /\ pull[p].listTask = "running"
    /\ CanSend(pull[p], "listCh")
    /\ Set(p, [pull[p] EXCEPT
                    !.listTask = "done", !.did = @ \cup {"remote"},
                    !.listCh = IF Fails("list", "")
                               THEN [issues |-> <<>>, err |-> TRUE]
                               ELSE [issues |->
                                        ListIssues(IF opts.all THEN "all" ELSE "open",
                                                   opts.label),
                                     err |-> FALSE]])
    /\ UNCHANGED <<env, store, lock, clock>>

\* Lines 99-106: the batch task; no remote call when there is nothing to fetch.
BatchTask(p) ==
    /\ pull[p].batchTask = "running"
    /\ CanSend(pull[p], "batchCh")
    /\ IF pull[p].toFetch # {}
       THEN Set(p, [pull[p] EXCEPT
                         !.batchTask = "done",
                         !.did = @ \cup {"remote"} \cup Missed("batch", ""),
                         !.asked = @ \cup pull[p].toFetch,
                         !.batchCh = IF Fails("batch", "")
                                     THEN [issues |-> {}, err |-> TRUE]
                                     ELSE [issues |-> GetIssuesBatch(pull[p].toFetch),
                                           err |-> FALSE]])
       ELSE Set(p, [pull[p] EXCEPT !.batchTask = "done",
                                   !.batchCh = [issues |-> {}, err |-> FALSE]])
    /\ UNCHANGED <<env, store, lock, clock>>

RecvListErrorIgnored(p) ==
    /\ pull[p].pc = "recvList"
    /\ pull[p].listCh # Nil
    /\ Set(p, [pull[p] EXCEPT
                  !.pc = "recvBatch", !.listCh = Nil,
                  !.remoteIssues = pull[p].listCh.issues,
                  !.via = [i \in 1..Len(pull[p].listCh.issues) |-> "list"]])
    /\ UNCHANGED <<env, store, lock, clock>>

RecvListOnly(p) ==
    /\ pull[p].pc = "recvList"
    /\ pull[p].listCh # Nil
    /\ IF pull[p].listCh.err
       THEN Set(p, Return([pull[p] EXCEPT !.listCh = Nil], "list"))
       ELSE Set(p, [pull[p] EXCEPT
                      !.pc = "load2", !.listCh = Nil,
                      !.remoteIssues = pull[p].listCh.issues,
                      !.via = [i \in 1..Len(pull[p].listCh.issues) |-> "list"]])
    /\ UNCHANGED <<env, store, lock, clock>>

\* Lines 108-113: receive the list result; its error fails the pull.
RecvList(p) ==
    /\ pull[p].pc = "recvList"
    /\ pull[p].listCh # Nil
    /\ IF pull[p].listCh.err
       THEN Set(p, Return([pull[p] EXCEPT !.listCh = Nil], "list"))
       ELSE Set(p, [pull[p] EXCEPT
                      !.pc = "recvBatch", !.listCh = Nil,
                      !.remoteIssues = pull[p].listCh.issues,
                      !.via = [i \in 1..Len(pull[p].listCh.issues) |-> "list"]])
    /\ UNCHANGED <<env, store, lock, clock>>

RecvBatchUnfiltered(p) ==
    /\ pull[p].pc = "recvBatch"
    /\ pull[p].batchCh # Nil
    /\ LET res == pull[p].batchCh
           extra == IF ~res.err /\ res.issues # {} THEN res.issues ELSE {}
       IN  \E order \in Perms(extra) :
             Set(p, [pull[p] EXCEPT
                        !.pc = "load2", !.batchCh = Nil,
                        !.via = @ \o [i \in 1..Len(order) |-> "batch"],
                        !.remoteIssues =
                            @ \o [i \in 1..Len(order) |-> RemoteIssue(order[i])]])
    /\ UNCHANGED <<env, store, lock, clock>>

RecvBatchErrorFatal(p) ==
    /\ pull[p].pc = "recvBatch"
    /\ pull[p].batchCh # Nil
    /\ LET res == pull[p].batchCh
           fetched == {pull[p].remoteIssues[i].number :
                         i \in 1..Len(pull[p].remoteIssues)}
           extra == IF ~res.err /\ res.issues # {} THEN res.issues \ fetched ELSE {}
       IN  IF res.err
           THEN Set(p, Return([pull[p] EXCEPT !.batchCh = Nil], "batch"))
           ELSE \E order \in Perms(extra) :
                  Set(p, [pull[p] EXCEPT
                             !.pc = "load2", !.batchCh = Nil,
                             !.via = @ \o [i \in 1..Len(order) |-> "batch"],
                             !.remoteIssues =
                                 @ \o [i \in 1..Len(order) |-> RemoteIssue(order[i])]])
    /\ UNCHANGED <<env, store, lock, clock>>

\* Lines 115-128: receive the batch result and append the hits the list did
\* not return, in the order Go ranges over the map.
RecvBatch(p) ==
    /\ pull[p].pc = "recvBatch"
    /\ pull[p].batchCh # Nil
    /\ LET res == pull[p].batchCh
           fetched == {pull[p].remoteIssues[i].number :
                         i \in 1..Len(pull[p].remoteIssues)}
           extra == IF ~res.err /\ res.issues # {} THEN res.issues \ fetched ELSE {}
       IN  \E order \in Perms(extra) :
             Set(p, [pull[p] EXCEPT
                        !.pc = "load2", !.batchCh = Nil,
                        !.via = @ \o [i \in 1..Len(order) |-> "batch"],
                        !.remoteIssues =
                            @ \o [i \in 1..Len(order) |-> RemoteIssue(order[i])]])
    /\ UNCHANGED <<env, store, lock, clock>>

\* The loop of line 141 at position loc.idx: its body, or what follows it.
EnterLoop(loc) ==
    [loc EXCEPT !.pc = IF loc.idx <= Len(loc.remoteIssues) THEN "loop"
                       ELSE IF Len(opts.args) = 0 THEN "side" ELSE "report"]

\* `continue`, or the end of the loop body.
Continue(loc) == EnterLoop([loc EXCEPT !.idx = @ + 1])

\* Lines 130-137: the second load and the localByNumber index.
Index(p) ==
    /\ pull[p].pc = "load2"
    /\ LET loaded == loadLocalIssues(files)
       IN  IF loaded.err
           THEN Set(p, Return(pull[p], "load"))
           ELSE Set(p, EnterLoop([pull[p] EXCEPT
                                    !.idx = 1, !.now = clock,
                                    !.localByNumber = LocalByNumber(loaded.Issues)]))
    /\ UNCHANGED <<env, store, lock, clock>>


StampKeepingCase(r, now) == [r EXCEPT !.syncedAt = now]

\* Lines 142-143: the fetched record as the loop body sees it.
Stamp(r, now) == [r EXCEPT !.state = ToLower(@), !.syncedAt = now]

\* Lines 147-154: whether the local copy differs from its snapshot.
localChanged(local, original) ==
    IF local # Nil
    THEN IF original = Nil THEN TRUE
         ELSE ~EqualIgnoringSyncedAt(local.Issue, original)
    ELSE FALSE

IsConflictOnlyWithForce(local, original, force) ==
    local # Nil /\ localChanged(local, original) /\ force

\* Line 156: the record is skipped as a conflict.
IsConflict(local, original, force) ==
    local # Nil /\ localChanged(local, original) /\ ~force

\* Line 165: where the record's file belongs.
NewPath(r) == PathFor(dirForState(r.state), r.number, r.title)

\* Lines 166-168: nothing to write for this record.
IsUnchanged(local, original, r) ==
    LET contentChanged == local = Nil \/ ~EqualIgnoringSyncedAt(local.Issue, r)
        pathChanged == local # Nil /\ local.Path # NewPath(r)
    IN  original # Nil /\ ~contentChanged /\ ~pathChanged

OnConflictFatal(loc, n) ==
    Return([loc EXCEPT !.conflicts = Append(@, n)], "conflict")

\* Lines 156-159: note the conflict and go on with the next record.
OnConflict(loc, n) == Continue([loc EXCEPT !.conflicts = Append(@, n)])

\* Lines 141-196: the loop body for the record at idx.
Reconcile(p) ==
    /\ pull[p].pc = "loop"
    /\ LET loc == pull[p]
           r == Stamp(loc.remoteIssues[loc.idx], loc.now)
           local == loc.localByNumber[r.number]
           original == readOriginalIssue(originals, r.number)
           newPath == NewPath(r)
           mustRename == local # Nil /\ local.Path # newPath
           renamed == IF mustRename THEN Rename(files, local.Path, newPath)
                      ELSE files
           didRename == IF mustRename THEN {"rename"} ELSE {}
           header == IF local = Nil THEN "A" ELSE "U"
       IN  IF IsConflict(local, original, opts.force)
           THEN /\ Set(p, OnConflict(loc, r.number))
                /\ UNCHANGED <<files, originals>>
           ELSE IF IsUnchanged(local, original, r)
           THEN /\ Set(p, Continue([loc EXCEPT !.unchanged = @ + 1]))
                /\ UNCHANGED <<files, originals>>
           ELSE IF mustRename /\ Fails("rename", r.number)
           THEN /\ Set(p, Return(loc, "rename"))
                /\ UNCHANGED <<files, originals>>
           ELSE IF Fails("write", r.number)
           THEN /\ files' = renamed
                /\ Set(p, Return([loc EXCEPT !.did = @ \cup didRename], "write"))
                /\ UNCHANGED originals
           ELSE IF Fails("orig", r.number)
           THEN /\ files' = WriteFile(renamed, newPath, r)
                /\ Set(p, Return([loc EXCEPT
                                    !.did = @ \cup didRename \cup {"write"}],
                                 "orig"))
                /\ UNCHANGED originals
           ELSE /\ files' = WriteFile(renamed, newPath, r)
                /\ originals' = writeOriginalIssue(originals, r)
                /\ Set(p, Continue([loc EXCEPT
                         !.did = @ \cup didRename \cup {"write", "orig"},
                         !.out = @ \cup {<<header, r.number>>}]))
    /\ UNCHANGED <<env, config, caches, lock, clock>>

\* Lines 198-203: advance the last-full-pull timestamp and save the config.
SaveConfig(p) ==
    /\ pull[p].pc = "side"
    /\ IF Fails("config", "")
       THEN /\ Set(p, Return(pull[p], "config"))
            /\ UNCHANGED config
       ELSE /\ config' = [config EXCEPT !.lastFullPull = clock]
            /\ Set(p, [pull[p] EXCEPT !.pc = "caches", !.did = @ \cup {"config"}])
    /\ UNCHANGED <<env, files, originals, caches, lock, clock>>

RefreshCachesFatal(p) ==
    /\ pull[p].pc = "caches"
    /\ LET written == {c \in CacheNames : ~Fails("cache", c)} IN
         IF written # CacheNames
         THEN /\ Set(p, Return([pull[p] EXCEPT
                                   !.did = @ \cup {"remote", "cachewarn"}],
                               "cache"))
              /\ UNCHANGED caches
         ELSE /\ caches' = [c \in CacheNames |-> clock]
              /\ Set(p, [pull[p] EXCEPT !.pc = "report",
                                        !.did = @ \cup {"remote", "cache"}])
    /\ UNCHANGED <<env, files, originals, config, lock, clock>>

\* Lines 205-289: refresh the four caches.  A cache is written when its
\* fetch succeeded, returned something to save and the save succeeded; any
\* failure is a warning.
RefreshCaches(p) ==
    /\ pull[p].pc = "caches"
    /\ LET written == {c \in CacheNames : ~Fails("cache", c)} IN
         /\ caches' = [c \in CacheNames |->
                          IF c \in written THEN clock ELSE caches[c]]
         /\ Set(p, [pull[p] EXCEPT
                       !.pc = "report",
                       !.did = @ \cup {"remote"}
                                 \cup (IF written = {} THEN {} ELSE {"cache"})
                                 \cup (IF written = CacheNames THEN {}
                                       ELSE {"cachewarn"})])
    /\ UNCHANGED <<env, files, originals, config, lock, clock>>

\* Lines 291-308: report the conflicts once, sorted; then, on a pull
\* without arguments, restore the orphaned snapshots.
Report(p) ==
    /\ pull[p].pc = "report"
    /\ LET loc == [pull[p] EXCEPT !.reported = SortStrings(pull[p].conflicts),
                                  !.told = TRUE]
       IN  IF Len(opts.args) = 0
           THEN Set(p, [loc EXCEPT !.pc = "orphans"])
           ELSE Set(p, Return(loc, None))
    /\ UNCHANGED <<env, store, lock, clock>>


OrphanedNone(fs, origs) == <<>>

OrphanedWithLocal(fs, origs) ==
    SeqOfIds({n \in Ids : origs[n] # Nil /\ ~IsLocal(n)})

\* Lines 317-354 of restoreDeletedIssues: the snapshots with a canonical
\* identifier and no local file, in directory order.
Orphaned(fs, origs) ==
    LET localNumbers == {x.Issue.number : x \in loadLocalIssues(fs).Issues}
    IN  SeqOfIds({n \in Ids : /\ origs[n] # Nil
                              /\ ~IsLocal(n)
                              /\ n \notin localNumbers})

RestoreList(p) ==
    /\ pull[p].pc = "orphans"
    /\ IF loadLocalIssues(files).err
       THEN Set(p, Return(pull[p], "load"))
       ELSE LET orphaned == Orphaned(files, originals)
            IN  IF Len(orphaned) = 0
                THEN Set(p, Return(pull[p], None))
                ELSE Set(p, [pull[p] EXCEPT !.pc = "restore", !.oidx = 1,
                                            !.orphaned = orphaned])
    /\ UNCHANGED <<env, store, lock, clock>>

\* The end of the loop of line 357, and of Pull (lines 305-310).
NextOrphan(loc) ==
    IF loc.oidx + 1 <= Len(loc.orphaned)
    THEN [loc EXCEPT !.oidx = @ + 1]
    ELSE Return([loc EXCEPT !.oidx = @ + 1], None)

\* Lines 357-384: fetch one orphaned record again and write it back.
RestoreOne(p) ==
    /\ pull[p].pc = "restore"
    /\ LET number == pull[p].orphaned[pull[p].oidx]
           loc == [pull[p] EXCEPT
                     !.did = @ \cup {"remote"} \cup Missed("get", number),
                     !.asked = @ \cup {number}]
       IN  IF ~GetIssueOk(number)                \* a warning, and the next one
           THEN /\ Set(p, NextOrphan(loc))
                /\ UNCHANGED <<files, originals>>
           ELSE LET r == Stamp(RemoteIssue(number), clock)
                    newPath == NewPath(r)
                IN  IF Fails("write", number)
                    THEN /\ Set(p, Return(loc, "write"))
                         /\ UNCHANGED <<files, originals>>
                    ELSE IF Fails("orig", number)
                    THEN /\ files' = WriteFile(files, newPath, r)
                         /\ Set(p, Return([loc EXCEPT !.did = @ \cup {"write"}],
                                          "orig"))
                         /\ UNCHANGED originals
                    ELSE /\ files' = WriteFile(files, newPath, r)
                         /\ originals' = writeOriginalIssue(originals, r)
                         /\ Set(p, NextOrphan([loc EXCEPT
                                  !.did = @ \cup {"write", "orig"},
                                  !.out = @ \cup {<<"R", number>>}]))
    /\ UNCHANGED <<env, config, caches, lock, clock>>

(***************************************************************************)
(* Initial states: a store an earlier sync and the user's edits can have   *)
(* left, and a remote service.                                             *)
(***************************************************************************)
\* A local file of identifier n in directory d, named after title st,
\* holding title t.
LocalFile(n, d, st, t) ==
    File([dir |-> d, number |-> n, slug |-> Slug(st)], Issue(n, t, d, NoTime))

Remote(t, s) == [title |-> t, state |-> s]

\* What the store and the remote hold for one identifier: the remote
\* record r, the snapshot o and the local files l.
Case(r, o, l) == [r |-> r, o |-> o, l |-> l]

\* Every combination for the identifier the scenarios vary in full: the
\* snapshot, when there is one, is "Bug"/open; the user may have edited the
\* title, closed the record (moved the file) or renamed the file; the
\* remote may have changed the title or closed the record.
FullCases(n) ==
    {Case(r, o, l) :
        r \in {Nil, Remote("Bug", "OPEN"), Remote("Fix", "OPEN"),
               Remote("Bug", "CLOSED")},
        o \in {Nil, Issue(n, "Bug", "open", NoTime)},
        l \in {{}, {LocalFile(n, "open", "Bug", "Bug")},
               {LocalFile(n, "open", "Bug", "Fix")},
               {LocalFile(n, "closed", "Bug", "Bug")},
               {LocalFile(n, "open", "Fix", "Bug")}}}

\* The cases of the second identifier: absent; in sync; new on the remote;
\* in conflict; its file deleted by the user, the remote record open or
\* closed; closed on the remote.
FewCases(n) ==
    LET snap == Issue(n, "Bug", "open", NoTime)
        clean == {LocalFile(n, "open", "Bug", "Bug")}
    IN  {Case(Nil, Nil, {}),
         Case(Remote("Bug", "OPEN"), snap, clean),
         Case(Remote("Fix", "OPEN"), Nil, {}),
         Case(Remote("Fix", "OPEN"), snap, {LocalFile(n, "open", "Bug", "Fix")}),
         Case(Remote("Bug", "OPEN"), snap, {}),
         Case(Remote("Bug", "CLOSED"), snap, {}),
         Case(Remote("Bug", "CLOSED"), snap, clean)}

\* PullOptions and args: an incremental pull, a pull of all states, a pull
\* of requested identifiers, and an incremental pull with a label filter.
OptChoices ==
    {[force |-> f, all |-> m = "all",
      args |-> IF m = "args" THEN <<"1">> ELSE <<>>,
      label |-> IF m = "label" THEN "bug" ELSE None] :
        f \in BOOLEAN, m \in {"open", "all", "args", "label"}}

\* The faults injected one at a time.
FaultChoices ==
    {{<<k, n>>} : k \in {"get", "rename", "write", "orig"},
                  n \in {m \in Ids : ~IsLocal(m)}}
        \cup {{<<k, "">>} : k \in {"list", "batch", "config"}}
        \cup {{<<"cache", c>>} : c \in CacheNames}

\* The cases of the temporary identifier, which the remote never holds: a
\* record created offline; the same with a snapshot; a snapshot whose file
\* is gone.
TempCases(n) ==
    LET snap == Issue(n, "Bug", "open", NoTime)
        mine == {LocalFile(n, "open", "Bug", "Bug")}
    IN  {Case(Nil, Nil, mine), Case(Nil, snap, mine), Case(Nil, snap, {})}

Absent == Case(Nil, Nil, {})

Scenario(c1, c2, cT, o, f, bad, inited) ==
    [remote |-> [n \in Ids |-> IF n = "1" THEN c1.r
                               ELSE IF n = "2" THEN c2.r ELSE cT.r],
     originals |-> [n \in Ids |-> IF n = "1" THEN c1.o
                                  ELSE IF n = "2" THEN c2.o ELSE cT.o],
     files |-> c1.l \cup c2.l \cup cT.l \cup bad,
     opts |-> o, faults |-> f, initialized |-> inited]

\* A file of open/ that does not parse as a record.
Malformed ==
    [path |-> [dir |-> "open", number |-> "2", slug |-> "fix"],
     parses |-> FALSE, issue |-> Nil]

\* A remote update with a rename for "1" and one more record to reconcile.
Busy1 ==
    Case(Remote("Fix", "CLOSED"), Issue("1", "Bug", "open", NoTime),
         {LocalFile("1", "open", "Bug", "Bug")})

Scenarios ==
    \* no fault: every case of "1" with every case of "2"
    {Scenario(c1, c2, Absent, o, {}, {}, TRUE) :
        c1 \in FullCases("1"), c2 \in FewCases("2"), o \in OptChoices}
    \* a temporary identifier in the store
    \cup {Scenario(Busy1, c2, cT, o, {}, {}, TRUE) :
            c2 \in FewCases("2"), cT \in TempCases("T1"), o \in OptChoices}
    \* one fault
    \cup {Scenario(Busy1, c2, Absent, o, f, {}, TRUE) :
            c2 \in FewCases("2"), o \in OptChoices, f \in FaultChoices}
    \* a malformed local file
    \cup {Scenario(Busy1, c2, Absent, o, {}, {Malformed}, TRUE) :
            c2 \in {Absent}, o \in OptChoices}
    \* a store that was never initialised
    \cup {Scenario(Case(Remote("Bug", "OPEN"), Nil, {}), Absent, Absent,
                   o, {}, {}, FALSE) : o \in OptChoices}

Init ==
    /\ \E sc \in Scenarios :
         /\ remote = sc.remote
         /\ opts = sc.opts
         /\ faults = sc.faults
         /\ files = sc.files
         /\ originals = sc.originals
         /\ config = [initialized |-> sc.initialized, lastFullPull |-> NoTime]
    /\ caches = [c \in CacheNames |-> NoTime]
    /\ lock = None
    /\ clock = 0
    /\ pull = [p \in Procs |-> PullInit]
    /\ call = NoCall

\* The environment recovers between two invocations: the failures stop.
Recover ==
    /\ faults # {}
    /\ lock = None
    /\ \E p \in Procs : pull[p].pc = "done"
    /\ faults' = {}
    /\ UNCHANGED <<remote, opts, store, lock, clock, pull, call>>

Step(p) ==
    \/ Start(p)
    \/ Acquire(p)
    \/ LoadLocal(p)
    \/ FetchArgs(p)
    \/ ListTask(p)
    \/ BatchTask(p)
    \/ RecvList(p)
    \/ RecvBatch(p)
    \/ Index(p)
    \/ Reconcile(p)
    \/ SaveConfig(p)
    \/ RefreshCaches(p)
    \/ Report(p)
    \/ RestoreList(p)
    \/ RestoreOne(p)
    \/ Release(p)

Next == (\E p \in Procs : Step(p)) \/ Recover

Spec == Init /\ [][Next]_vars

\* The statements of Pull itself, without its two fetch tasks.
Main(p) ==
    \/ Start(p) \/ Acquire(p) \/ LoadLocal(p) \/ FetchArgs(p)
    \/ RecvList(p) \/ RecvBatch(p) \/ Index(p) \/ Reconcile(p)
    \/ SaveConfig(p) \/ RefreshCaches(p) \/ Report(p)
    \/ RestoreList(p) \/ RestoreOne(p) \/ Release(p)

\* The start states of the runs checked for termination.
LiveScenarios ==
    {Scenario(Busy1, c2, Absent, o, f, {}, TRUE) :
        c2 \in {Absent,
                Case(Remote("Bug", "CLOSED"), Issue("2", "Bug", "open", NoTime), {}),
                Case(Remote("Bug", "CLOSED"), Issue("2", "Bug", "open", NoTime),
                     {LocalFile("2", "open", "Bug", "Bug")})},
        o \in OptChoices,
        f \in {{}, {<<"list", "">>}, {<<"batch", "">>}, {<<"get", "2">>}}}

LiveInit ==
    /\ \E sc \in LiveScenarios :
         /\ remote = sc.remote
         /\ opts = sc.opts
         /\ faults = sc.faults
         /\ files = sc.files
         /\ originals = sc.originals
         /\ config = [initialized |-> sc.initialized, lastFullPull |-> NoTime]
    /\ caches = [c \in CacheNames |-> NoTime]
    /\ lock = None
    /\ clock = 0
    /\ pull = [p \in Procs |-> PullInit]
    /\ call = NoCall

\* Every goroutine that can take a step is scheduled in the end, and every
\* remote call returns: Pull and each of its two tasks keep running.
Fairness ==
    \A p \in Procs :
        /\ WF_vars(Main(p))
        /\ WF_vars(ListTask(p))
        /\ WF_vars(BatchTask(p))

LiveSpec == LiveInit /\ [][Next]_vars /\ Fairness


(***************************************************************************)
(* Vocabulary of the properties.                                           *)
(***************************************************************************)
\* Invocation p has held the lock.
Entered(p) == pull[p].entry # Nil

\* The local record of n, as a load of the files finds it.
LocalOf(fs, n) == LocalByNumber(loadLocalIssuesWithErrors(fs).Issues)[n]

\* The files that hold identifier n.
FilesOf(fs, n) == {f \in fs : f.parses /\ f.issue.number = n}

\* The local record and the snapshot of n when p took the lock.
EntryLocal(p, n) == LocalOf(pull[p].entry.files, n)
EntryOriginal(p, n) == pull[p].entry.originals[n]

\* The remote record of n as p's loop body sees it.
Fetched(p, n) == Stamp(RemoteIssue(n), pull[p].now)

\* The loop of p has finished its body for the fetched record n.
Processed(p, n) ==
    \E i \in 1..Len(pull[p].remoteIssues) :
        i < pull[p].idx /\ pull[p].remoteIssues[i].number = n

\* x differs from the snapshot o (or there is no snapshot).
Differs(x, o) == o = Nil \/ ~EqualIgnoringSyncedAt(x, o)

\* When p took the lock, n had a local copy equal to its snapshot.
CleanAtEntry(p, n) ==
    /\ EntryLocal(p, n) # Nil
    /\ EntryOriginal(p, n) # Nil
    /\ EqualIgnoringSyncedAt(EntryLocal(p, n).Issue, EntryOriginal(p, n))

\* When p took the lock, n had a local copy that differed from its snapshot.
EditedAtEntry(p, n) ==
    /\ EntryLocal(p, n) # Nil
    /\ Differs(EntryLocal(p, n).Issue, EntryOriginal(p, n))

\* The local copy and the snapshot of n both equal the fetched record.
InSync(p, n) ==
    /\ LocalOf(files, n) # Nil
    /\ EqualIgnoringSyncedAt(LocalOf(files, n).Issue, Fetched(p, n))
    /\ originals[n] # Nil
    /\ EqualIgnoringSyncedAt(originals[n], Fetched(p, n))

\* C1: a record whose local copy equalled its snapshot when Pull took the
\* lock is, once the loop has processed its fetched remote record, equal to
\* the remote record (ignoring SyncedAt) locally and in its snapshot; when
\* the remote record had changed, the file and the snapshot hold exactly
\* the record as fetched and stamped.
C1_CleanRemoteUpdate ==
    \A p \in Procs : \A n \in Ids :
        (Entered(p) /\ Processed(p, n) /\ CleanAtEntry(p, n)) =>
            /\ InSync(p, n)
            /\ (lock = p /\ Differs(Fetched(p, n), EntryOriginal(p, n))) =>
                  /\ originals[n] = Fetched(p, n)
                  /\ FilesOf(files, n) = {File(NewPath(Fetched(p, n)), Fetched(p, n))}

C1_Witness ==
    \E p \in Procs : \E n \in Ids :
        /\ Entered(p) /\ Processed(p, n) /\ CleanAtEntry(p, n)
        /\ Differs(Fetched(p, n), EntryOriginal(p, n))
        /\ "rename" \in pull[p].did


\* The file and the snapshot of n are what they were when p took the lock.
Untouched(p, n) ==
    /\ FilesOf(files, n) = FilesOf(pull[p].entry.files, n)
    /\ originals[n] = EntryOriginal(p, n)

\* Both the local copy and the remote record of n had diverged from the
\* snapshot when p took the lock.
BothDiverged(p, n) ==
    /\ EntryLocal(p, n) # Nil
    /\ EntryOriginal(p, n) # Nil
    /\ ~EqualIgnoringSyncedAt(EntryLocal(p, n).Issue, EntryOriginal(p, n))
    /\ ~EqualIgnoringSyncedAt(Fetched(p, n), EntryOriginal(p, n))

\* C2: without force, a fetched record whose local copy and remote copy
\* both differ from the snapshot is put in the conflict list (and in the
\* report, once it is printed), and its local file (content and path) and
\* its snapshot stay exactly as they were.
C2_ConflictNonDestructive ==
    \A p \in Procs : \A n \in Ids :
        (~opts.force /\ Entered(p) /\ Processed(p, n) /\ BothDiverged(p, n)) =>
            /\ n \in SeqRange(pull[p].conflicts)
            /\ pull[p].told => n \in SeqRange(pull[p].reported)
            /\ Untouched(p, n)

C2_Witness ==
    \E p \in Procs : \E n \in Ids :
        /\ ~opts.force /\ Entered(p) /\ Processed(p, n) /\ BothDiverged(p, n)
        /\ pull[p].told
        /\ pull[p].pc = "done"
        /\ n \in SeqRange(pull[p].reported)

\* C3 (as claimed): a record is put in the conflict list only if both its
\* local copy and its remote copy differ from the snapshot.
C3_ConflictOnlyIfBothDiffer ==
    \A p \in Procs : \A n \in SeqRange(pull[p].conflicts) :
        /\ EditedAtEntry(p, n)
        /\ Differs(Fetched(p, n), EntryOriginal(p, n))

\* The local file of n sat, when p took the lock, at the path derived
\* from its state, number and title.
AtDerivedPath(p, n) ==
    /\ EntryLocal(p, n) # Nil
    /\ EntryLocal(p, n).Path = NewPath(EntryLocal(p, n).Issue)

\* C4 (as claimed, for a local file that sits at its derived path): when
\* the remote record equals the snapshot, the local file of a processed
\* record is what it was, with or without force.
C4_RemoteUnchangedKeepsLocal ==
    \A p \in Procs : \A n \in Ids :
        (/\ Entered(p) /\ Processed(p, n)
         /\ AtDerivedPath(p, n)
         /\ ~Differs(Fetched(p, n), EntryOriginal(p, n))) =>
            FilesOf(files, n) = FilesOf(pull[p].entry.files, n)

\* The same without force: the only file Pull then touches although the
\* remote record equals the snapshot is one that is not at its derived path.
C4_WithoutForce ==
    \A p \in Procs : \A n \in Ids :
        (/\ ~opts.force /\ Entered(p) /\ Processed(p, n)
         /\ AtDerivedPath(p, n)
         /\ ~Differs(Fetched(p, n), EntryOriginal(p, n))) =>
            FilesOf(files, n) = FilesOf(pull[p].entry.files, n)

\* C5 (as claimed): with force, a processed record whose local copy differed
\* from the snapshot (or had none) is not a conflict, and its local copy and
\* its snapshot equal the remote record.
C5_ForceOverride ==
    \A p \in Procs : \A n \in Ids :
        (opts.force /\ Entered(p) /\ Processed(p, n) /\ EditedAtEntry(p, n)) =>
            /\ n \notin SeqRange(pull[p].conflicts)
            /\ InSync(p, n)


\* The kinds of operation on the store an invocation has performed.
RecordWrites == {"write", "rename", "orig"}
StoreWrites == RecordWrites \cup {"config", "cache"}

\* q ran right after p, and p had returned without error and with every
\* record it asked the remote for.
RanAfter(p, q) ==
    /\ pull[p].pc = "done" /\ pull[p].err = None /\ Entered(p)
    /\ "missed" \notin pull[p].did
    /\ Entered(q)
    /\ pull[q].turn = pull[p].turn + 1

Critical(p) == pull[p].pc \notin {"idle", "acquire", "done"}

\* C7 (as claimed): of two invocations that ran concurrently (one found the
\* lock held), exactly one proceeded and the other failed with the
\* lock-timeout error.
C7_ExactlyOneProceeds ==
    \A p \in Procs : \A q \in Procs \ {p} :
        (pull[p].pc = "done" /\ pull[q].pc = "done" /\ pull[q].tries > 0) =>
            (pull[p].err = "locked") # (pull[q].err = "locked")

\* C7 (amended): two invocations are never both between lock acquisition
\* and release, and one that is there holds the lock; an invocation that
\* found the lock held either took it after the holder released it or
\* failed with the lock-timeout error once its polls ran out.
C7_MutualExclusion ==
    \A p \in Procs :
        /\ Critical(p) => lock = p
        /\ \A q \in Procs \ {p} : ~(Critical(p) /\ Critical(q))
        /\ pull[p].err = "locked" => pull[p].tries = MaxRetry /\ ~Entered(p)
        /\ (pull[p].tries > 0 /\ Entered(p)) =>
              \E q \in Procs \ {p} : pull[q].pc = "done" /\ Entered(q)

C7_Witness ==
    \E p \in Procs : \E q \in Procs \ {p} :
        /\ pull[p].pc = "done" /\ "write" \in pull[p].did
        /\ pull[q].tries > 0
        /\ Critical(q) /\ "write" \in pull[q].did

\* C8: the local record files, the snapshots, the caches and the
\* configuration change only in a step of the invocation that holds the
\* lock, and it still holds it after the step.
C8_WritesUnderLock ==
    [][store' # store =>
          /\ lock # None
          /\ lock' = lock
          /\ Critical(lock)
          /\ \A q \in Procs \ {lock} : pull'[q] = pull[q]]_vars

C8_Witness ==
    \E p \in Procs :
        lock = p /\ {"rename", "write", "orig", "config", "cache"} \subseteq pull[p].did

\* C9: an invocation that has returned does not hold the lock, whatever it
\* returned.
C9_LockReleasedOnReturn ==
    \A p \in Procs : pull[p].pc = "done" => lock # p

C9_Witness ==
    \E p \in Procs :
        /\ pull[p].pc = "done" /\ Entered(p) /\ lock = None
        /\ pull[p].err = "orig"
        /\ "write" \in pull[p].did

\* C10: an invocation whose lock acquisition timed out has returned the
\* lock error, never held the lock, wrote and renamed nothing, started no
\* fetch task and issued no remote call.
C10_LockTimeoutDoesNothing ==
    \A p \in Procs :
        pull[p].err = "locked" =>
            /\ pull[p].pc = "done"
            /\ ~Entered(p)
            /\ pull[p].did = {}
            /\ pull[p].listTask = "idle" /\ pull[p].batchTask = "idle"
            /\ pull[p].remoteIssues = <<>>

C10_Witness ==
    \E p \in Procs : \E q \in Procs \ {p} :
        /\ pull[p].err = "locked" /\ pull[p].pc = "done"
        /\ pull[q].pc = "done" /\ "write" \in pull[q].did

\* The list query of p has answered with an error and p has received it.
ListFailed(p) ==
    /\ Entered(p) /\ Len(opts.args) = 0
    /\ Fails("list", "")
    /\ pull[p].listTask = "done" /\ pull[p].pc # "recvList"

\* C11: when the list query of a pull without requested identifiers fails,
\* Pull returns that error, and it has written or renamed no local record,
\* snapshot, cache or configuration file: while it still holds the lock the
\* store is as it found it.
C11_ListFailureAbortsBeforeMutation ==
    \A p \in Procs :
        /\ ListFailed(p) => pull[p].err = "list"
        /\ pull[p].err = "list" =>
              /\ pull[p].pc \in {"release", "done"}
              /\ pull[p].did \cap StoreWrites = {}
              /\ ~pull[p].told
              /\ lock = p => Snapshot = pull[p].entry

C11_Witness ==
    \E p \in Procs :
        /\ ListFailed(p)
        /\ pull[p].pc = "done" /\ pull[p].err = "list"
        /\ pull[p].batchTask = "done" /\ "1" \in pull[p].asked
        /\ Snapshot = pull[p].entry

\* Both fetch tasks of p have finished and p has received both results.
Merged(p) ==
    /\ pull[p].listTask = "done" /\ pull[p].batchTask = "done"
    /\ pull[p].listCh = Nil /\ pull[p].batchCh = Nil

\* The statements of Pull from the second load on.
AfterFetch == {"load2", "loop", "side", "caches", "report", "orphans", "restore"}

\* C12: in a pull without requested identifiers the two fetch tasks are
\* started together, and Pull is past the fetch, or has written or renamed
\* anything, only when both tasks have finished and both results have been
\* received and merged.
C12_FetchBarrier ==
    \A p \in Procs :
        Len(opts.args) = 0 =>
            /\ (pull[p].listTask = "idle") <=> (pull[p].batchTask = "idle")
            /\ pull[p].pc \in AfterFetch => Merged(p)
            /\ pull[p].did \cap StoreWrites # {} => Merged(p)
            /\ ~Merged(p) => pull[p].idx = 1 /\ pull[p].conflicts = <<>>

C12_Witness ==
    \E p \in Procs :
        /\ Len(opts.args) = 0
        /\ pull[p].pc = "loop" /\ pull[p].idx = 2
        /\ {"list", "batch"} \subseteq SeqRange(pull[p].via)
        /\ {"rename", "write", "orig"} \subseteq pull[p].did

\* What the list query of this pull returns.
Listed == ListIssues(IF opts.all THEN "all" ELSE "open", opts.label)
ListedIds == {Listed[i].number : i \in 1..Len(Listed)}

\* C13: the merged sequence of remote records holds every identifier at
\* most once; it starts with the list result as the list query returned it;
\* a batch hit is in it only for an identifier the list did not return; and
\* when the batch fetch succeeded it holds exactly the identifiers of the
\* list result and of the batch result.
C13_MergePrecedence ==
    \A p \in Procs :
        LET loc == pull[p]
            at(n) == {i \in 1..Len(loc.remoteIssues) : loc.remoteIssues[i].number = n}
        IN  (Len(opts.args) = 0 /\ Merged(p) /\ loc.err # "list") =>
                /\ Len(loc.via) = Len(loc.remoteIssues)
                /\ \A n \in Ids : Cardinality(at(n)) <= 1
                /\ \A i \in 1..Len(Listed) :
                      loc.remoteIssues[i] = Listed[i] /\ loc.via[i] = "list"
                /\ \A i \in 1..Len(loc.via) :
                      loc.via[i] = "batch" =>
                          /\ loc.remoteIssues[i].number \notin ListedIds
                          /\ loc.remoteIssues[i].number \in loc.toFetch
                /\ "missed" \notin loc.did =>
                      SeqRange(loc.remoteIssues) =
                          {RemoteIssue(n) :
                              n \in ListedIds \cup GetIssuesBatch(loc.toFetch)}

C13_Witness ==
    \E p \in Procs :
        /\ Len(opts.args) = 0 /\ Merged(p) /\ pull[p].pc = "load2"
        /\ ListedIds \cap GetIssuesBatch(pull[p].toFetch) # {}
        /\ GetIssuesBatch(pull[p].toFetch) \ ListedIds # {}
        /\ "batch" \in SeqRange(pull[p].via)

\* The local copy of n equals the remote record p fetched.
LocalIsRemote(p, n) ==
    /\ LocalOf(files, n) # Nil
    /\ EqualIgnoringSyncedAt(LocalOf(files, n).Issue, Fetched(p, n))

\* C14: a conflict does not end the loop (the conflicting record counts as
\* processed and the loop goes on); the conflicts are reported once the
\* loop has passed every fetched record, each identifier once, and by then
\* every fetched record that is not a conflict has been reconciled: its
\* local copy equals the remote record.
C14_ConflictsNeverFatal ==
    \A p \in Procs :
        LET loc == pull[p] IN
        /\ \A n \in SeqRange(loc.conflicts) : Processed(p, n)
        /\ loc.err # "conflict"
        /\ ~loc.told => loc.reported = <<>>
        /\ loc.told =>
              /\ loc.idx = Len(loc.remoteIssues) + 1
              /\ loc.reported = SortStrings(loc.conflicts)
              /\ Cardinality(SeqRange(loc.reported)) = Len(loc.reported)
              /\ \A i \in 1..Len(loc.remoteIssues) :
                    LET n == loc.remoteIssues[i].number
                    IN  n \in SeqRange(loc.conflicts) \/ LocalIsRemote(p, n)

C14_Witness ==
    \E p \in Procs :
        /\ pull[p].told /\ pull[p].pc = "done" /\ pull[p].err = None
        /\ pull[p].reported = <<"1">>
        /\ Len(pull[p].remoteIssues) = 2
        /\ pull[p].remoteIssues[1].number = "1"
        /\ <<"A", "2">> \in pull[p].out
        /\ LocalIsRemote(p, "2")

\* The errors of Pull that come from one local record: a file that does not
\* parse, a rename, a write of the file or of the snapshot that fails.
PerRecordErrors == {"load", "rename", "write", "orig"}

\* C15 (as claimed): no failure on a single local record ends a Pull; a
\* Pull that held the lock and returned without reaching its report was
\* stopped by the primary fetch.
C15_LocalFailuresDoNotAbort ==
    \A p \in Procs :
        /\ pull[p].err \notin PerRecordErrors
        /\ (pull[p].pc = "done" /\ Entered(p) /\ ~pull[p].told) =>
              pull[p].err \in {"list", "get", "config"}

\* p restored the record n from the remote.
Restored(p, n) == <<"R", n>> \in pull[p].out

\* p is a pull without requested identifiers that has returned without
\* error and without a failed fetch of records.
FullPullDone(p) ==
    /\ pull[p].pc = "done" /\ pull[p].err = None /\ Entered(p)
    /\ Len(opts.args) = 0
    /\ "missed" \notin pull[p].did

\* C16 (amended): a record p restored had a snapshot and no local file when p took
\* the lock, has a canonical identifier, and is now in step with the remote
\* record, its one file in the directory of the remote state; and when a
\* pull without requested identifiers has returned without error, every
\* remote call answered, every snapshot of a canonical identifier that the
\* remote still holds has a local record.
C16_OrphanRestoration ==
    \A p \in Procs : \A n \in Ids :
        /\ Restored(p, n) =>
              /\ ~IsLocal(n)
              /\ EntryOriginal(p, n) # Nil /\ EntryLocal(p, n) = Nil
              /\ InSync(p, n)
              /\ LocalOf(files, n).Path = NewPath(Fetched(p, n))
              /\ lock = p => originals[n] = Fetched(p, n)
        /\ (FullPullDone(p) /\ ~IsLocal(n) /\ originals[n] # Nil /\ remote[n] # Nil) =>
              LocalOf(files, n) # Nil

C16_Witness ==
    \E p \in Procs :
        /\ FullPullDone(p)
        /\ Restored(p, "2")
        /\ LocalOf(files, "2").Path.dir = "closed"
        /\ {"rename", "write"} \subseteq pull[p].did

\* C16 (as claimed): at the end of any Pull that returned without error
\* and whose remote calls all succeeded, every snapshot of a canonical
\* identifier that the remote still holds has a local record.
C16_EveryPullRestores ==
    \A p \in Procs : \A n \in Ids :
        (/\ pull[p].pc = "done" /\ pull[p].err = None /\ Entered(p)
         /\ "missed" \notin pull[p].did /\ faults = {}
         /\ ~IsLocal(n) /\ originals[n] # Nil /\ remote[n] # Nil) =>
            LocalOf(files, n) # Nil

\* The temporary local identifiers of the store.
Temporary == {"T1"}

\* C17: a temporary local identifier is never among the identifiers of the
\* batch fetch nor among the orphans to restore, no remote get is issued
\* for it, and it is never restored, whether it has a local file, a
\* snapshot, or a snapshot without a local file.
C17_TemporaryNeverFetched ==
    \A p \in Procs : \A n \in Temporary :
            /\ n \notin pull[p].toFetch
            /\ n \notin SeqRange(pull[p].orphaned)
            /\ n \notin pull[p].asked
            /\ ~Restored(p, n)
            /\ \A i \in 1..Len(pull[p].remoteIssues) :
                  pull[p].remoteIssues[i].number # n

C17_Witness ==
    \E p \in Procs :
        /\ FullPullDone(p)
        /\ originals["T1"] # Nil /\ LocalOf(files, "T1") = Nil
        /\ Restored(p, "2")
        /\ pull[p].asked = {"1", "2"}

\* When p took the lock, n had an unedited local copy in open/ and the
\* remote record was closed.
ClosedRemotely(p, n) ==
    /\ ~IsLocal(n) /\ remote[n] # Nil
    /\ CleanAtEntry(p, n)
    /\ EntryLocal(p, n).State = "open"
    /\ ToLower(remote[n].state) = "closed"

\* The one file of n is in closed/ at the derived path, it and the
\* snapshot hold the remote record, and p reported an update of n.
ClosureObserved(p, n) ==
    /\ FilesOf(files, n) = {File(NewPath(Fetched(p, n)), Fetched(p, n))}
    /\ NewPath(Fetched(p, n)).dir = "closed"
    /\ LocalOf(files, n).Issue.state = "closed"
    /\ originals[n] = Fetched(p, n)
    /\ <<"U", n>> \in pull[p].out

\* An incremental pull of p has returned without error.
IncrementalDone(p) ==
    /\ pull[p].pc = "done" /\ pull[p].err = None /\ Entered(p)
    /\ Len(opts.args) = 0 /\ ~opts.all

\* C18 (as claimed): an incremental pull that has returned without error
\* has moved every unedited open local record whose remote record is closed
\* to closed/, refreshed its snapshot and reported the update.
C18_RemoteClosureObserved ==
    \A p \in Procs : \A n \in Ids :
        (IncrementalDone(p) /\ ClosedRemotely(p, n)) => ClosureObserved(p, n)

\* The closure is observed whenever the batch fetch of the pull succeeded:
\* the record is then asked for by identifier, the list of open records not
\* holding it.
C18_ClosureObservedWhenFetched ==
    \A p \in Procs : \A n \in Ids :
        (IncrementalDone(p) /\ ClosedRemotely(p, n) /\ "missed" \notin pull[p].did) =>
            /\ ClosureObserved(p, n)
            /\ n \in pull[p].asked
            /\ n \notin ListedIds

\* The record p was working on when it returned an error from the loop or
\* from the restoration of orphans.
InFlight(p) ==
    IF pull[p].orphaned # <<>> /\ pull[p].oidx <= Len(pull[p].orphaned)
    THEN pull[p].orphaned[pull[p].oidx]
    ELSE pull[p].remoteIssues[pull[p].idx].number

\* The file and the snapshot of n both hold the record p fetched, the file
\* at its derived path.
AllNew(p, n) ==
    /\ FilesOf(files, n) = {File(NewPath(Fetched(p, n)), Fetched(p, n))}
    /\ originals[n] = Fetched(p, n)

\* C19 (as claimed): when a rename, a write of the file or a write of the
\* snapshot fails, the record in flight is left with path, content and
\* snapshot all old or all new.
C19_RecordAtomicOnFailure ==
    \A p \in Procs :
        (pull[p].err \in {"rename", "write", "orig"} /\ lock = p) =>
            \/ Untouched(p, InFlight(p))
            \/ AllNew(p, InFlight(p))

\* Nothing but the refresh of caches fails in this environment.
OnlyCachesFail == \A f \in faults : f[1] = "cache"

Filtered == Len(opts.args) > 0 \/ opts.label # None

\* p has left the caches and the configuration as it found them.
NoSideEffects(p) ==
    /\ pull[p].did \cap {"config", "cache"} = {}
    /\ lock = p =>
          /\ config = pull[p].entry.config
          /\ caches = pull[p].entry.caches

\* C21 (as claimed): a pull restricted to requested identifiers or to a
\* label writes no cache and does not change the last-full-pull timestamp.
C21_SideEffectsOnlyOnFullPull ==
    \A p \in Procs : (Entered(p) /\ Filtered) => NoSideEffects(p)

\* That holds of a pull of requested identifiers.
C21_ArgsPullHasNoSideEffects ==
    \A p \in Procs : (Entered(p) /\ Len(opts.args) > 0) => NoSideEffects(p)

\* Every identifier has at most one record file in fs.
OnePerIdentifier(fs) == \A n \in Ids : Cardinality(FilesOf(fs, n)) <= 1

\* The record file f sits at the path derived from its state, number and
\* title.
WellPlaced(f) == f.path = NewPath(IssueFile(f).Issue)

\* Pull has returned in p; the deferred release of the lock is still to run.
Returned(p) == Entered(p) /\ pull[p].pc = "release"

\* p wrote the record n: its loop added, updated or found it up to date,
\* or the restoration wrote it back.
Settled(p, n) ==
    \/ Processed(p, n) /\ n \notin SeqRange(pull[p].conflicts)
    \/ Restored(p, n)

\* C31 (amended): when every identifier had at most one record file as
\* Pull took the lock, every identifier has at most one record file at
\* every step of the Pull and after it, also when the Pull fails; and the
\* file of every record the Pull added, updated, found up to date or
\* restored sits at the path derived from its state, number and title.
C31_OneFilePerIdentifier ==
    \A p \in Procs :
        (Entered(p) /\ lock = p /\ OnePerIdentifier(pull[p].entry.files)) =>
            /\ OnePerIdentifier(files)
            /\ \A n \in Ids : Settled(p, n) =>
                  /\ FilesOf(files, n) # {}
                  /\ \A f \in FilesOf(files, n) : WellPlaced(f)

C31_Witness ==
    \E p \in Procs :
        /\ Returned(p) /\ pull[p].err = None
        /\ FilesOf(pull[p].entry.files, "1") = {LocalFile("1", "open", "Bug", "Bug")}
        /\ "rename" \in pull[p].did
        /\ Settled(p, "1") /\ Restored(p, "2")
        /\ \E f \in FilesOf(files, "1") : f.path = PathFor("closed", "1", "Fix")
        /\ OnePerIdentifier(files)

\* C31 (as claimed): when every identifier had at most one record file
\* before the Pull, after a Pull that returned without error every
\* identifier has at most one record file and that file sits at the path
\* derived from its state, number and title.
C31_EveryFileAtDerivedPath ==
    \A p \in Procs :
        (/\ Returned(p) /\ pull[p].err = None
         /\ OnePerIdentifier(pull[p].entry.files)) =>
            /\ OnePerIdentifier(files)
            /\ \A f \in files : f.parses => WellPlaced(f)

\* The identifiers of the remote records p has fetched and merged.
MergedIds(p) ==
    {pull[p].remoteIssues[i].number : i \in 1..Len(pull[p].remoteIssues)}

\* The files that do not parse as a record.
Unparsed(fs) == {f \in fs : ~f.parses}

\* C32: from the moment Pull takes the lock to its return, a local record whose
\* identifier is not among the fetched remote records (every record with a
\* temporary identifier is one) has the file, at the path and with the
\* content, and the snapshot it had when Pull took the lock; and every
\* identifier that had a record file then has one now: Pull deletes none.
C32_FrameOfPull ==
    \A p \in Procs :
        (Entered(p) /\ lock = p) =>
            /\ \A n \in Ids :
                  (EntryLocal(p, n) # Nil /\ n \notin MergedIds(p)) =>
                      Untouched(p, n)
            /\ \A n \in Ids :
                  FilesOf(pull[p].entry.files, n) # {} => FilesOf(files, n) # {}
            /\ Unparsed(files) = Unparsed(pull[p].entry.files)

C32_Witness ==
    \E p \in Procs :
        /\ Returned(p) /\ pull[p].err = None
        /\ {"rename", "write", "orig"} \subseteq pull[p].did
        /\ Restored(p, "2")
        /\ MergedIds(p) = {"1"}
        /\ EntryLocal(p, "T1") # Nil /\ EntryOriginal(p, "T1") # Nil
        /\ Untouched(p, "T1")

\* C33: under fair scheduling, with remote calls that return, each fetch
\* task that was started sends its one result and ends, whether or not
\* Pull receives it, and every invocation of Pull returns.
C33_FetchTasksTerminate ==
    \A p \in Procs :
        /\ (pull[p].listTask = "running") ~> (pull[p].listTask = "done")
        /\ (pull[p].batchTask = "running") ~> (pull[p].batchTask = "done")
        /\ <>(pull[p].pc = "done")

\* The list query failed, Pull has returned, and the batch task has sent a
\* result nobody will receive.
C33_Witness ==
    \E p \in Procs :
        /\ pull[p].pc = "done" /\ pull[p].err = "list"
        /\ pull[p].listTask = "done" /\ pull[p].batchTask = "done"
        /\ pull[p].batchCh # Nil
        /\ lock # p

\* p is an incremental pull whose batch fetch fails: it holds the lock (so
\* the failures are those of its own remote calls) and has identifiers to
\* fetch.
BatchFails(p) ==
    /\ Entered(p) /\ lock = p
    /\ Len(opts.args) = 0 /\ ~opts.all
    /\ Fails("batch", "")
    /\ pull[p].toFetch # {}

\* C34: an incremental pull whose batch fetch fails goes on as if the
\* batch had returned no record: it returns without error, the records it
\* reconciles are exactly those of the list query, in the list's order,
\* what it prints concerns listed or restored records only, and a local
\* record the list query does not return keeps its file and its snapshot.
C34_BatchFailureIsSilent ==
    \A p \in Procs :
        BatchFails(p) =>
            /\ pull[p].err = None
            /\ pull[p].pc \in AfterFetch \cup {"release"} =>
                  /\ Len(pull[p].remoteIssues) = Len(Listed)
                  /\ \A i \in 1..Len(Listed) :
                        pull[p].remoteIssues[i] = Listed[i] /\ pull[p].via[i] = "list"
            /\ \A e \in pull[p].out : e[2] \in ListedIds \/ e[1] = "R"
            /\ SeqRange(pull[p].conflicts) \subseteq ListedIds
            /\ \A n \in Ids :
                  (EntryLocal(p, n) # Nil /\ n \notin ListedIds) => Untouched(p, n)

C34_Witness ==
    \E p \in Procs :
        /\ BatchFails(p) /\ Returned(p)
        /\ pull[p].batchTask = "done" /\ pull[p].batchCh = Nil
        /\ "1" \in pull[p].asked /\ "1" \notin ListedIds
        /\ remote["1"] # Nil
        /\ EntryLocal(p, "1") # Nil /\ Untouched(p, "1")
        /\ <<"A", "2">> \in pull[p].out
        /\ "config" \in pull[p].did

(***************************************************************************)
(* The helper functions of helpers.go, diff.go, comment.go and storage.go. *)
(* A text is a sequence of characters; a call holds the input of one       *)
(* function and, once it has run, its result.                              *)
(***************************************************************************)
\* Longest title or body of a record given to applyMapping.
MaxText == 4

\* The characters of a text: "#", letters and digits, and a blank.
Chars == {"#", "T", "1", "2", " "}

\* [a-zA-Z0-9]
IsAlnum(c) == c \in {"T", "1", "2", "x"}

\* The texts of at most n characters.
Texts(n) == UNION {[1..k -> Chars] : k \in 0..n}

\* localRefPattern `#(T[a-zA-Z0-9]+)` matches at position i of s.
MatchAt(s, i) ==
    /\ i + 2 <= Len(s)
    /\ s[i] = "#" /\ s[i + 1] = "T" /\ IsAlnum(s[i + 2])

MatchEndShortest(s, i) == i + 2

\* The last position of the match at i: the + is greedy.
MatchEnd(s, i) ==
    CHOOSE e \in (i + 2)..Len(s) :
        /\ \A k \in (i + 2)..e : IsAlnum(s[k])
        /\ e = Len(s) \/ ~IsAlnum(s[e + 1])

RECURSIVE ReplaceAllStringFunc(_, _, _)
\* localRefPattern.ReplaceAllStringFunc(s, f) from position i on, with the
\* callback of applyMapping: a match whose identifier is a key becomes "#"
\* and the mapped identifier (and sets changed), any other match stays.
ReplaceAllStringFunc(s, i, mapping) ==
    IF i > Len(s) THEN [text |-> <<>>, changed |-> FALSE]
    ELSE IF MatchAt(s, i)
    THEN LET e == MatchEnd(s, i)
             id == SubSeq(s, i + 1, e)
             rest == ReplaceAllStringFunc(s, e + 1, mapping)
         IN  IF id \in DOMAIN mapping
             THEN [text |-> <<"#">> \o mapping[id] \o rest.text, changed |-> TRUE]
             ELSE [text |-> SubSeq(s, i, e) \o rest.text, changed |-> rest.changed]
    ELSE LET rest == ReplaceAllStringFunc(s, i + 1, mapping)
         IN  [text |-> <<s[i]>> \o rest.text, changed |-> rest.changed]

\* The nil *IssueRef.
NoRef == <<>>

applyMappingToRefsAlwaysChanged(refs, mapping, changed) ==
    [refs |-> [k \in 1..Len(refs) |->
                  IF refs[k] \in DOMAIN mapping THEN mapping[refs[k]] ELSE refs[k]],
     changed |-> TRUE]

\* applyMappingToRefs: the mapped entries replaced in place.
applyMappingToRefs(refs, mapping, changed) ==
    IF Len(refs) = 0 THEN [refs |-> refs, changed |-> changed]
    ELSE [refs |-> [k \in 1..Len(refs) |->
                      IF refs[k] \in DOMAIN mapping THEN mapping[refs[k]]
                      ELSE refs[k]],
          changed |-> changed \/ \E k \in 1..Len(refs) : refs[k] \in DOMAIN mapping]

\* applyMapping(issueItem, mapping): the record after the call, and the
\* value returned.
applyMapping(item, mapping) ==
    LET body == ReplaceAllStringFunc(item.body, 1, mapping)
        title == ReplaceAllStringFunc(item.title, 1, mapping)
        hitParent == item.parent # NoRef /\ item.parent \in DOMAIN mapping
        parent == IF hitParent THEN mapping[item.parent] ELSE item.parent
        changed3 == \/ body.changed \/ body.text # item.body
                    \/ title.changed \/ title.text # item.title
                    \/ hitParent
        blockedBy == applyMappingToRefs(item.blockedBy, mapping, changed3)
        blocks == applyMappingToRefs(item.blocks, mapping, blockedBy.changed)
    IN  [issue |-> [title |-> title.text, body |-> body.text, parent |-> parent,
                    blockedBy |-> blockedBy.refs, blocks |-> blocks.refs],
         changed |-> blocks.changed]

\* Temporary and canonical identifiers as texts.
T1 == <<"T", "1">>
T2 == <<"T", "2">>
T12 == <<"T", "1", "2">>

\* Mappings from retired temporary identifiers to canonical ones.
Mappings ==
    {<<>>,
     (T1 :> <<"2">>),
     (T2 :> <<"1">>),
     (T1 :> <<"2">> @@ T12 :> <<"2", "1">>),
     (T1 :> <<"1", "2">> @@ T2 :> <<"2">>)}

Item(t, b, par, by, bl) ==
    [title |-> t, body |-> b, parent |-> par, blockedBy |-> by, blocks |-> bl]

\* The records given to applyMapping: every body, every title, and every
\* combination of parent, blocked-by and blocks of a few references.
Refs == {T1, T2, T12, <<"2">>}
RefSeqs == {<<>>} \cup {<<r>> : r \in Refs} \cup {<<r, q>> : r \in Refs, q \in Refs}
Items ==
    {Item(<<>>, b, NoRef, <<>>, <<>>) : b \in Texts(MaxText)}
    \cup {Item(t, <<"#", "T", "1">>, T1, <<T1>>, <<>>) : t \in Texts(MaxText)}
    \cup {Item(<<>>, <<>>, par, by, bl) :
            par \in Refs \cup {NoRef}, by \in RefSeqs, bl \in {<<>>, <<T2, T1>>}}

MappingCalls ==
    {[fn |-> "applyMapping", pc |-> "call", item |-> it, mapping |-> m,
      once |-> Nil, twice |-> Nil] : it \in Items, m \in Mappings}

\* The first call of applyMapping, and a second one on its result.
ApplyMapping ==
    /\ call.fn = "applyMapping"
    /\ \/ /\ call.pc = "call"
          /\ call' = [call EXCEPT !.pc = "once",
                                  !.once = applyMapping(call.item, call.mapping)]
       \/ /\ call.pc = "once"
          /\ call' = [call EXCEPT !.pc = "twice",
                                  !.twice = applyMapping(call.once.issue, call.mapping)]
    /\ UNCHANGED pullVars

\* Longest collection given to diffStringSet.
MaxItems == 3

\* Label, assignee or project names, and their order under sort.Strings.
Names == {"bug", "docs", "ux"}
NameRank(s) ==
    CASE s = "bug" -> 1
      [] s = "docs" -> 2
      [] OTHER -> 3

RECURSIVE InsertName(_, _)
InsertName(s, q) ==
    IF q = <<>> THEN <<s>>
    ELSE IF NameRank(s) <= NameRank(Head(q)) THEN <<s>> \o q
    ELSE <<Head(q)>> \o InsertName(s, Tail(q))

SortNamesSkipped(q) == q

RECURSIVE SortNames(_)
\* sort.Strings on names
SortNames(q) ==
    IF q = <<>> THEN <<>> ELSE InsertName(Head(q), SortNames(Tail(q)))

\* The keys of a set in some order of a range loop.
SeqOfNames(S) == CHOOSE q \in Perms(S) : TRUE

RECURSIVE Without(_, _)
\* The entries of q, in order, that are not keys of the set s.
Without(q, s) ==
    IF q = <<>> THEN <<>>
    ELSE IF Head(q) \in s THEN Without(Tail(q), s)
    ELSE <<Head(q)>> \o Without(Tail(q), s)

\* diffStringSet(old, new), newOrder and oldOrder being the orders in which
\* the two range loops visit the keys of newSet and oldSet.
diffStringSet(old, new, newOrder, oldOrder) ==
    LET oldSet == SeqRange(old)
        newSet == SeqRange(new)
    IN  [add |-> SortNames(Without(newOrder, oldSet)),
         remove |-> SortNames(Without(oldOrder, newSet))]

NameSeqs == UNION {[1..k -> Names] : k \in 0..MaxItems}

SetDiffCalls ==
    {[fn |-> "diffStringSet", pc |-> "call", old |-> o, new |-> n, res |-> Nil] :
        o \in NameSeqs, n \in NameSeqs}

DiffStringSet ==
    /\ call.fn = "diffStringSet" /\ call.pc = "call"
    /\ \E newOrder \in Perms(SeqRange(call.new)), oldOrder \in Perms(SeqRange(call.old)) :
          call' = [call EXCEPT !.pc = "done",
                     !.res = diffStringSet(call.old, call.new, newOrder, oldOrder)]
    /\ UNCHANGED pullVars

\* Longest line sequence given to computeDiff.
MaxLines == 3

\* The lines of a text.
Lines == {"a", "b", "c"}
LineSeqs == UNION {[1..k -> Lines] : k \in 0..MaxLines}

RECURSIVE lcs(_, _, _, _)
\* lcs[i][j] of computeDiff's table.
lcs(oldLines, newLines, i, j) ==
    IF i = 0 \/ j = 0 THEN 0
    ELSE IF oldLines[i] = newLines[j] THEN lcs(oldLines, newLines, i - 1, j - 1) + 1
    ELSE IF lcs(oldLines, newLines, i - 1, j) >= lcs(oldLines, newLines, i, j - 1)
    THEN lcs(oldLines, newLines, i - 1, j)
    ELSE lcs(oldLines, newLines, i, j - 1)

diffOp(type, text) == [Type |-> type, Text |-> text]

IsEqualStepNever(oldLines, newLines, i, j) == FALSE

\* The first branch of the backtracking loop.
IsEqualStep(oldLines, newLines, i, j) ==
    i > 0 /\ j > 0 /\ oldLines[i] = newLines[j]

RECURSIVE Backtrack(_, _, _, _)
\* The operations the backtracking loop appends from (i, j) on.
Backtrack(oldLines, newLines, i, j) ==
    IF ~(i > 0 \/ j > 0) THEN <<>>
    ELSE IF IsEqualStep(oldLines, newLines, i, j)
    THEN <<diffOp("equal", oldLines[i])>> \o Backtrack(oldLines, newLines, i - 1, j - 1)
    ELSE IF j > 0 /\ (i = 0 \/ lcs(oldLines, newLines, i, j - 1) >= lcs(oldLines, newLines, i - 1, j))
    THEN <<diffOp("insert", newLines[j])>> \o Backtrack(oldLines, newLines, i, j - 1)
    ELSE <<diffOp("delete", oldLines[i])>> \o Backtrack(oldLines, newLines, i - 1, j)

ReverseSkipped(q) == q

\* The closing loop of computeDiff: ops reversed in place.
Reverse(q) == [k \in 1..Len(q) |-> q[Len(q) + 1 - k]]

computeDiff(oldLines, newLines) ==
    Reverse(Backtrack(oldLines, newLines, Len(oldLines), Len(newLines)))

LineDiffCalls ==
    {[fn |-> "computeDiff", pc |-> "call", old |-> o, new |-> n, ops |-> <<>>] :
        o \in LineSeqs, n \in LineSeqs}

ComputeDiff ==
    /\ call.fn = "computeDiff" /\ call.pc = "call"
    /\ call' = [call EXCEPT !.pc = "done", !.ops = computeDiff(call.old, call.new)]
    /\ UNCHANGED pullVars

\* File names are sequences of characters that end in an extension.
CommentExt == ".comment.md"
RecordExt == ".md"

\* Byte order of the characters of a file name.
CharRank(c) ==
    CASE c = "-" -> 45
      [] c = CommentExt -> 46
      [] c = RecordExt -> 47
      [] c = "1" -> 49
      [] c = "2" -> 50
      [] c = "T" -> 84
      [] OTHER -> 120

RECURSIVE LexLess(_, _)
\* a sorts before b in sort.Strings / os.ReadDir order.
LexLess(a, b) ==
    IF b = <<>> THEN FALSE
    ELSE IF a = <<>> THEN TRUE
    ELSE IF Head(a) = Head(b) THEN LexLess(Tail(a), Tail(b))
    ELSE CharRank(Head(a)) < CharRank(Head(b))

\* The names of a set in ascending order.
SortedNames(S) ==
    CHOOSE q \in Perms(S) : \A i \in 1..(Len(q) - 1) : LexLess(q[i], q[i + 1])

\* <id>[-<slug>].comment.md and <id>-<slug>.md
CommentFile(id, slug) ==
    id \o (IF slug = <<>> THEN <<>> ELSE <<"-">> \o slug) \o <<CommentExt>>
RecordFile(id, slug) == id \o <<"-">> \o slug \o <<RecordExt>>

\* Identifiers looked up, and the files a directory may hold.
Numbers == {<<"1">>, <<"1", "2">>, <<"2">>}
Slugs == {<<"x">>, <<"2">>}
FileNames ==
    {CommentFile(<<"1">>, <<>>), CommentFile(<<"1", "2">>, <<>>),
     CommentFile(<<"1">>, <<"x">>), CommentFile(<<"1">>, <<"2">>),
     CommentFile(<<"1", "2">>, <<"x">>), RecordFile(<<"1">>, <<"x">>)}
FewFileNames ==
    {CommentFile(<<"1">>, <<>>), CommentFile(<<"1">>, <<"x">>),
     CommentFile(<<"1", "2">>, <<>>)}

\* File contents, and strings.TrimSpace of them.
Contents == {"", " \n", " hi\n"}
TrimSpace(content) == IF content = " hi\n" THEN "hi" ELSE ""

\* A directory: its regular files and their contents.
Folders(names) == UNION {[S -> Contents] : S \in SUBSET names}

HasPrefix(s, prefix) ==
    Len(s) >= Len(prefix) /\ SubSeq(s, 1, Len(prefix)) = prefix

GlobMatchPrefixOnly(name, numStr) ==
    HasPrefix(name, numStr) /\ name[Len(name)] = CommentExt

\* name matches the pattern numStr + "-*.comment.md".
GlobMatch(name, numStr) ==
    /\ HasPrefix(name, numStr \o <<"-">>)
    /\ Len(name) >= Len(numStr) + 2
    /\ name[Len(name)] = CommentExt

\* filepath.Glob: the matching names, sorted.
Glob(folder, numStr) ==
    SortedNames({name \in DOMAIN folder : GlobMatch(name, numStr)})

\* The zero PendingComment returned with found = false.
NotFound == [found |-> FALSE, IssueNumber |-> <<>>, Body |-> "", Path |-> <<>>]

Found(number, content, dir, name) ==
    [found |-> TRUE, IssueNumber |-> number, Body |-> TrimSpace(content),
     Path |-> <<dir, name>>]

\* findPendingComment(dir, number), p[dir] being the files of dir.
findPendingComment(p, dir, number) ==
    LET preferred == number \o <<CommentExt>>
        matches == Glob(p[dir], number)
    IN  IF preferred \in DOMAIN p[dir]
        THEN Found(number, p[dir][preferred], dir, preferred)
        ELSE IF Len(matches) = 0 THEN NotFound
        ELSE Found(number, p[dir][matches[1]], dir, matches[1])

findPendingCommentForIssue(p, number, state) ==
    LET dir == IF state = "closed" THEN "closed" ELSE "open"
        otherDir == IF state = "closed" THEN "open" ELSE "closed"
    IN  IF findPendingComment(p, dir, number).found
        THEN findPendingComment(p, dir, number)
        ELSE findPendingComment(p, otherDir, number)

\* Length of the identifier commentFilePattern captures at the head of
\* name, 0 when the pattern does not match: ^(\d+|T[a-zA-Z0-9]+)(?:-[^.]+)?
\* and then .comment.md to the end.
CommentNumberLen(name) ==
    LET Run(from, ok(_)) ==
            CHOOSE e \in (from - 1)..Len(name) :
                /\ \A k \in from..e : ok(name[k])
                /\ e = Len(name) \/ ~ok(name[e + 1])
        IsDigit(c) == c \in {"1", "2"}
        NotDot(c) == c \notin {CommentExt, RecordExt}
        e == IF name # <<>> /\ name[1] = "T" THEN Run(2, IsAlnum) ELSE Run(1, IsDigit)
        least == IF name # <<>> /\ name[1] = "T" THEN 2 ELSE 1
        tail == SubSeq(name, e + 1, Len(name))
    IN  IF /\ e >= least
           /\ \/ tail = <<CommentExt>>
              \/ /\ Len(tail) >= 3 /\ tail[1] = "-" /\ tail[Len(tail)] = CommentExt
                 /\ \A k \in 2..(Len(tail) - 1) : NotDot(tail[k])
        THEN e ELSE 0

RECURSIVE ScanComments(_, _, _)
\* The loop of loadAllPendingComments over the entries still to visit.
ScanComments(p, entries, comments) ==
    IF entries = <<>> THEN comments
    ELSE LET dir == Head(entries)[1]
             name == Head(entries)[2]
             n == CommentNumberLen(name)
             number == SubSeq(name, 1, n)
             body == TrimSpace(p[dir][name])
         IN  IF name[Len(name)] # CommentExt \/ n = 0 \/ body = ""
                \/ number \in DOMAIN comments
             THEN ScanComments(p, Tail(entries), comments)
             ELSE ScanComments(p, Tail(entries),
                      comments @@ (number :> Found(number, p[dir][name], dir, name)))

\* os.ReadDir of open/ and then of closed/, each in name order.
Entries(p) ==
    LET open == SortedNames(DOMAIN p["open"])
        closed == SortedNames(DOMAIN p["closed"])
    IN  [k \in 1..Len(open) |-> <<"open", open[k]>>]
            \o [k \in 1..Len(closed) |-> <<"closed", closed[k]>>]

loadAllPendingComments(p) == ScanComments(p, Entries(p), <<>>)

Tree(open, closed) == [open |-> open, closed |-> closed]

CommentCalls ==
    {[fn |-> "findPendingComment", pc |-> "call", p |-> Tree(f, <<>>),
      number |-> n, state |-> "open", res |-> Nil] :
        f \in Folders(FileNames), n \in Numbers}
    \cup {[fn |-> "findPendingCommentForIssue", pc |-> "call", p |-> Tree(f, g),
           number |-> n, state |-> s, res |-> Nil] :
            f \in Folders(FewFileNames), g \in Folders(FewFileNames),
            n \in {<<"1">>, <<"1", "2">>}, s \in {"open", "closed"}}
    \cup {[fn |-> "loadAllPendingComments", pc |-> "call", p |-> Tree(f, g),
           number |-> <<>>, state |-> "open", res |-> Nil] :
            f \in Folders(FewFileNames), g \in Folders(FewFileNames)}

FindPendingComment ==
    /\ call.fn = "findPendingComment" /\ call.pc = "call"
    /\ call' = [call EXCEPT !.pc = "done",
                  !.res = findPendingComment(call.p, "open", call.number)]
    /\ UNCHANGED pullVars

FindPendingCommentForIssue ==
    /\ call.fn = "findPendingCommentForIssue" /\ call.pc = "call"
    /\ call' = [call EXCEPT !.pc = "done",
                  !.res = findPendingCommentForIssue(call.p, call.number, call.state)]
    /\ UNCHANGED pullVars

LoadAllPendingComments ==
    /\ call.fn = "loadAllPendingComments" /\ call.pc = "call"
    /\ call' = [call EXCEPT !.pc = "done", !.res = loadAllPendingComments(call.p)]
    /\ UNCHANGED pullVars

\* Record files of open/ and closed/: well-formed ones, one of them with a
\* header state that is not its directory's, and malformed ones.
RecordFiles ==
    {LocalFile("1", "open", "Bug", "Bug"),
     LocalFile("1", "closed", "Fix", "Fix"),
     LocalFile("T1", "open", "Bug", "Bug"),
     File([dir |-> "closed", number |-> "2", slug |-> "fix"],
          Issue("2", "Fix", "open", NoTime)),
     Malformed,
     [path |-> [dir |-> "closed", number |-> "1", slug |-> "bug"],
      parses |-> FALSE, issue |-> Nil]}

LoadCalls ==
    {[fn |-> "loadLocalIssuesWithErrors", pc |-> "call", fs |-> fs, res |-> Nil] :
        fs \in SUBSET RecordFiles}

LoadLocalIssuesWithErrors ==
    /\ call.fn = "loadLocalIssuesWithErrors" /\ call.pc = "call"
    /\ call' = [call EXCEPT !.pc = "done", !.res = loadLocalIssuesWithErrors(call.fs)]
    /\ UNCHANGED pullVars

\* The fields of issue.Issue that diffIssue reads.  None is a nil pointer.
DiffRecord(title, labels, state, reason, rest) ==
    [Title |-> title, Body |-> rest, Labels |-> labels,
     Assignees |-> IF rest = "" THEN <<>> ELSE <<"ux">>, Projects |-> <<>>,
     Milestone |-> rest, IssueType |-> rest, State |-> state,
     StateReason |-> reason]

\* Snapshots: State is empty for a record that was never synced.
Originals ==
    {DiffRecord(t, l, s, r, x) :
        t \in Titles, l \in {<<>>, <<"bug">>}, s \in {"", "open", "closed"},
        r \in {None, "completed"}, x \in {"", "v1"}}

\* Local records: loadLocalIssuesWithErrors gives each the state of its
\* directory.
Locals ==
    {DiffRecord(t, l, s, r, x) :
        t \in Titles, l \in {<<"bug">>, <<"docs", "bug">>}, s \in Dirs,
        r \in {None, "", "completed"}, x \in {"v1"}}

normalizeOptional(value) == IF value = None THEN "" ELSE value

transitionRaw(state) == state

\* The transition diffIssue names for the local state.
transition(state) ==
    CASE state = "closed" -> "close"
      [] state = "open" -> "reopen"
      [] OTHER -> ""

\* diffStringSet as diffIssue calls it; the result does not depend on the
\* order in which the maps are ranged over.
DiffSet(old, new) ==
    diffStringSet(old, new, SortNames(SeqOfNames(SeqRange(new))),
                  SortNames(SeqOfNames(SeqRange(old))))

\* diffIssue(original, local): the ghcli.IssueChange returned.
diffIssue(original, local) ==
    [Title |-> IF original.Title # local.Title THEN local.Title ELSE None,
     Body |-> IF original.Body # local.Body THEN local.Body ELSE None,
     AddLabels |-> DiffSet(original.Labels, local.Labels).add,
     RemoveLabels |-> DiffSet(original.Labels, local.Labels).remove,
     AddAssignees |-> DiffSet(original.Assignees, local.Assignees).add,
     RemoveAssignees |-> DiffSet(original.Assignees, local.Assignees).remove,
     AddProjects |-> DiffSet(original.Projects, local.Projects).add,
     RemoveProjects |-> DiffSet(original.Projects, local.Projects).remove,
     Milestone |-> IF original.Milestone # local.Milestone
                   THEN local.Milestone ELSE None,
     IssueType |-> IF original.IssueType # local.IssueType
                   THEN local.IssueType ELSE None,
     StateTransition |->
        IF original.State # "" /\ original.State # local.State
              /\ transition(local.State) # ""
        THEN transition(local.State) ELSE None,
     StateReason |->
        IF (original.StateReason # None \/ local.StateReason # None)
              /\ normalizeOptional(original.StateReason)
                    # normalizeOptional(local.StateReason)
        THEN normalizeOptional(local.StateReason) ELSE None]

DiffCalls ==
    {[fn |-> "diffIssue", pc |-> "call", original |-> o, local |-> l, res |-> Nil] :
        o \in Originals, l \in Locals}

DiffIssue ==
    /\ call.fn = "diffIssue" /\ call.pc = "call"
    /\ call' = [call EXCEPT !.pc = "done", !.res = diffIssue(call.original, call.local)]
    /\ UNCHANGED pullVars

LookupCalls ==
    {[fn |-> "lookups", pc |-> "call", p |-> Tree(f, g), number |-> n,
      state |-> s, res |-> Nil] :
        f \in Folders(FewFileNames), g \in Folders(FewFileNames),
        n \in {<<"1">>, <<"1", "2">>}, s \in {"open", "closed"}}

\* Both lookups on the same directories: the scan of loadAllPendingComments
\* and findPendingCommentForIssue for one identifier.
Lookups ==
    /\ call.fn = "lookups" /\ call.pc = "call"
    /\ call' = [call EXCEPT !.pc = "done",
                  !.res = [all |-> loadAllPendingComments(call.p),
                           one |-> findPendingCommentForIssue(call.p, call.number,
                                                              call.state)]]
    /\ UNCHANGED pullVars

\* The store no pull is running on.
Quiet ==
    /\ remote = [n \in Ids |-> Nil]
    /\ opts = [force |-> FALSE, all |-> FALSE, args |-> <<>>, label |-> None]
    /\ faults = {}
    /\ files = {}
    /\ originals = [n \in Ids |-> Nil]
    /\ config = [initialized |-> TRUE, lastFullPull |-> NoTime]
    /\ caches = [c \in CacheNames |-> NoTime]
    /\ lock = None
    /\ clock = 0
    /\ pull = [p \in Procs |-> PullInit]

HelperCalls ==
    MappingCalls \cup SetDiffCalls \cup LineDiffCalls \cup CommentCalls
        \cup LoadCalls \cup DiffCalls \cup LookupCalls

HelpersInit == Quiet /\ call \in HelperCalls

HelpersNext ==
    \/ ApplyMapping
    \/ DiffStringSet
    \/ ComputeDiff
    \/ FindPendingComment
    \/ FindPendingCommentForIssue
    \/ LoadAllPendingComments
    \/ LoadLocalIssuesWithErrors
    \/ DiffIssue
    \/ Lookups

Helpers == HelpersInit /\ [][HelpersNext]_vars

\* The references of a text from position i on: each "#" that a letter or
\* digit follows, with the longest run of letters and digits after it.
RECURSIVE RefsOf(_, _)
RefsOf(s, i) ==
    IF i > Len(s) THEN <<>>
    ELSE IF s[i] = "#" /\ i < Len(s) /\ IsAlnum(s[i + 1])
    THEN LET e == CHOOSE k \in (i + 1)..Len(s) :
                     /\ \A j \in (i + 1)..k : IsAlnum(s[j])
                     /\ k = Len(s) \/ ~IsAlnum(s[k + 1])
         IN  <<SubSeq(s, i + 1, e)>> \o RefsOf(s, e + 1)
    ELSE RefsOf(s, i + 1)

\* The text around the references: s with every reference cut out.
RECURSIVE Around(_, _)
Around(s, i) ==
    IF i > Len(s) THEN <<>>
    ELSE IF s[i] = "#" /\ i < Len(s) /\ IsAlnum(s[i + 1])
    THEN LET e == CHOOSE k \in (i + 1)..Len(s) :
                     /\ \A j \in (i + 1)..k : IsAlnum(s[j])
                     /\ k = Len(s) \/ ~IsAlnum(s[k + 1])
         IN  <<"#">> \o Around(s, e + 1)
    ELSE <<s[i]>> \o Around(s, i + 1)

\* A reference under the mapping.
Mapped(r, mapping) == IF r \in DOMAIN mapping THEN mapping[r] ELSE r
MappedAll(refs, mapping) == [k \in 1..Len(refs) |-> Mapped(refs[k], mapping)]

\* Every reference of the record, in every field that holds references.
AllRefs(item) ==
    SeqRange(RefsOf(item.title, 1)) \cup SeqRange(RefsOf(item.body, 1))
        \cup SeqRange(item.blockedBy) \cup SeqRange(item.blocks)
        \cup (IF item.parent = NoRef THEN {} ELSE {item.parent})

\* C22: after applyMapping no reference in the title, the body, the parent,
\* blocked-by or blocks names a key of the mapping; the references of each
\* field are those it had, in their order, each key replaced by its
\* canonical identifier and every other reference as it was; and the text
\* around the references is unchanged.
C22_RemapComplete ==
    (call.fn = "applyMapping" /\ call.pc # "call") =>
        LET in == call.item
            out == call.once.issue
            m == call.mapping
        IN  /\ AllRefs(out) \cap DOMAIN m = {}
            /\ RefsOf(out.title, 1) = MappedAll(RefsOf(in.title, 1), m)
            /\ RefsOf(out.body, 1) = MappedAll(RefsOf(in.body, 1), m)
            /\ Around(out.title, 1) = Around(in.title, 1)
            /\ Around(out.body, 1) = Around(in.body, 1)
            /\ out.parent = (IF in.parent = NoRef THEN NoRef ELSE Mapped(in.parent, m))
            /\ out.blockedBy = MappedAll(in.blockedBy, m)
            /\ out.blocks = MappedAll(in.blocks, m)
            /\ call.once.changed <=> out # in

C22_Witness ==
    /\ call.fn = "applyMapping" /\ call.pc = "once"
    /\ call.item.body = <<"#", "T", "1", "2">>
    /\ call.mapping = (T1 :> <<"2">> @@ T12 :> <<"2", "1">>)
    /\ call.once.issue.body = <<"#", "2", "1">>
    /\ call.once.changed

\* C23: a second applyMapping with the same mapping changes no field of
\* the record and returns false.
C23_RemapIdempotent ==
    (call.fn = "applyMapping" /\ call.pc = "twice") =>
        /\ call.twice.issue = call.once.issue
        /\ ~call.twice.changed

C23_Witness ==
    /\ call.fn = "applyMapping" /\ call.pc = "twice"
    /\ call.once.changed /\ ~call.twice.changed
    /\ call.item.blockedBy = <<T1, T2>>
    /\ call.twice.issue.blockedBy = <<<<"1", "2">>, <<"2">>>>
    /\ call.twice.issue.parent = <<"2">>

\* A sequence of names in strictly ascending order: sorted, no duplicates.
Ascending(q) == \A i \in 1..(Len(q) - 1) : NameRank(q[i]) < NameRank(q[i + 1])

\* C24: diffStringSet(old, new) returns as added the elements of new that
\* are not in old and as removed the elements of old that are not in new,
\* each in ascending order without duplicates, so that old without removed,
\* together with added, is new as a set.
C24_SetDiffCorrect ==
    (call.fn = "diffStringSet" /\ call.pc = "done") =>
        LET old == SeqRange(call.old)
            new == SeqRange(call.new)
            add == call.res.add
            remove == call.res.remove
        IN  /\ SeqRange(add) = new \ old
            /\ SeqRange(remove) = old \ new
            /\ Ascending(add) /\ Ascending(remove)
            /\ (old \ SeqRange(remove)) \cup SeqRange(add) = new

C24_Witness ==
    /\ call.fn = "diffStringSet" /\ call.pc = "done"
    /\ call.old = <<"ux", "ux">>
    /\ call.new = <<"docs", "bug", "docs">>
    /\ call.res = [add |-> <<"bug", "docs">>, remove |-> <<"ux">>]

RECURSIVE Replay(_, _)
\* The lines spelled, in order, by the operations of the given types.
Replay(ops, types) ==
    IF ops = <<>> THEN <<>>
    ELSE IF Head(ops).Type \in types THEN <<Head(ops).Text>> \o Replay(Tail(ops), types)
    ELSE Replay(Tail(ops), types)

\* C25: the equal and delete operations of computeDiff(X, Y), in order,
\* spell exactly X, and the equal and insert operations, in order, spell
\* exactly Y.
C25_DiffReconstructs ==
    (call.fn = "computeDiff" /\ call.pc = "done") =>
        /\ Replay(call.ops, {"equal", "delete"}) = call.old
        /\ Replay(call.ops, {"equal", "insert"}) = call.new

C25_Witness ==
    /\ call.fn = "computeDiff" /\ call.pc = "done"
    /\ call.old = <<"a", "b", "c">>
    /\ call.new = <<"b", "a", "c">>
    /\ Replay(call.ops, {"equal", "delete"}) = <<"a", "b", "c">>
    /\ Replay(call.ops, {"equal", "insert"}) = <<"b", "a", "c">>
    /\ \E k \in 1..Len(call.ops) : call.ops[k].Type = "insert"
    /\ \E k \in 1..Len(call.ops) : call.ops[k].Type = "delete"

\* The subsequences of q: one for every set of positions kept.
RECURSIVE Subsequences(_)
Subsequences(q) ==
    IF q = <<>> THEN {<<>>}
    ELSE LET rest == Subsequences(Tail(q))
         IN  rest \cup {<<Head(q)>> \o r : r \in rest}

\* Length of a longest common subsequence under exact line equality.
LCS(X, Y) ==
    LET common == Subsequences(X) \cap Subsequences(Y)
    IN  CHOOSE l \in 0..Len(X) :
            /\ \E c \in common : Len(c) = l
            /\ \A c \in common : Len(c) <= l

Count(ops, types) == Cardinality({k \in 1..Len(ops) : ops[k].Type \in types})

\* C26: the number of insert plus delete operations of computeDiff(X, Y)
\* is len(X) + len(Y) - 2 * LCS(X, Y), the least any edit script of inserts
\* and deletes can have.
C26_DiffOptimal ==
    (call.fn = "computeDiff" /\ call.pc = "done") =>
        Count(call.ops, {"insert", "delete"})
            = Len(call.old) + Len(call.new) - 2 * LCS(call.old, call.new)

C26_Witness ==
    /\ call.fn = "computeDiff" /\ call.pc = "done"
    /\ call.old = <<"a", "b", "a">>
    /\ call.new = <<"b", "a", "b">>
    /\ LCS(call.old, call.new) = 2
    /\ Count(call.ops, {"insert", "delete"}) = 2
    /\ Count(call.ops, {"equal"}) = 2

\* The comment files of an identifier in a directory that carry a slug.
Slugged(folder, number) ==
    {name \in DOMAIN folder : \E s \in Slugs : name = CommentFile(number, s)}

\* C27: findPendingComment returns the file named exactly <id>.comment.md
\* when the directory has it; when it has not, the first in name order of
\* the files <id>-<slug>.comment.md; and not found when the directory has
\* neither, so that no file of another identifier is returned.
C27_PreferredCommentFile ==
    (call.fn = "findPendingComment" /\ call.pc = "done") =>
        LET folder == call.p["open"]
            exact == CommentFile(call.number, <<>>)
            slugged == Slugged(folder, call.number)
            res == call.res
        IN  IF exact \in DOMAIN folder
            THEN res.found /\ res.Path = <<"open", exact>>
            ELSE IF slugged # {}
            THEN /\ res.found
                 /\ res.Path[2] \in slugged
                 /\ \A m \in slugged \ {res.Path[2]} : LexLess(res.Path[2], m)
            ELSE ~res.found

C27_Witness ==
    /\ call.fn = "findPendingComment" /\ call.pc = "done"
    /\ call.number = <<"1">>
    /\ DOMAIN call.p["open"] =
          {CommentFile(<<"1">>, <<"x">>), CommentFile(<<"1">>, <<"2">>),
           CommentFile(<<"1", "2">>, <<>>)}
    /\ call.res.found
    /\ call.res.Path = <<"open", CommentFile(<<"1">>, <<"2">>)>>

\* C28 (as claimed): no comment lookup reports a file whose body is empty
\* or only whitespace: what findPendingComment and
\* findPendingCommentForIssue find, and every entry loadAllPendingComments
\* returns, has a body that is not empty.
C28_EmptyCommentNeverFound ==
    /\ (call.fn \in {"findPendingComment", "findPendingCommentForIssue"}
            /\ call.pc = "done" /\ call.res.found)
          => call.res.Body # ""
    /\ (call.fn = "loadAllPendingComments" /\ call.pc = "done")
          => \A n \in DOMAIN call.res : call.res[n].Body # ""

\* loadAllPendingComments alone skips the files without a body.
C28_LoadAllSkipsEmpty ==
    (call.fn = "loadAllPendingComments" /\ call.pc = "done") =>
        \A n \in DOMAIN call.res :
            /\ call.res[n].Body # ""
            /\ TrimSpace(call.p[call.res[n].Path[1]][call.res[n].Path[2]]) # ""

\* C29: loadLocalIssuesWithErrors returns every file that parses, as a
\* record with the state of its directory, and for every file that does
\* not parse one error entry with the file's path and a cause; a malformed
\* file keeps no well-formed file out of the result.
C29_LoadSurvivesParseErrors ==
    (call.fn = "loadLocalIssuesWithErrors" /\ call.pc = "done") =>
        LET good == {f \in call.fs : f.parses}
            bad == call.fs \ good
            res == call.res
        IN  /\ \A f \in good : \E x \in res.Issues :
                  /\ x.Path = f.path
                  /\ x.State = f.path.dir /\ x.Issue.state = f.path.dir
                  /\ x.Issue.number = f.issue.number
                  /\ x.Issue.title = f.issue.title
            /\ \A f \in bad : \E e \in res.Errors : e.Path = f.path /\ e.Err # None
            /\ Cardinality(res.Issues) = Cardinality(good)
            /\ Cardinality(res.Errors) = Cardinality(bad)

C29_Witness ==
    /\ call.fn = "loadLocalIssuesWithErrors" /\ call.pc = "done"
    /\ Malformed \in call.fs
    /\ Cardinality(call.res.Errors) = 2
    /\ Cardinality(call.res.Issues) = 4
    /\ \E x \in call.res.Issues :
          x.Path.dir = "closed" /\ x.Issue.number = "2" /\ x.Issue.state = "closed"

\* C30: diffIssue emits a state transition exactly when the original's
\* state is not empty and differs from the local state; the transition is
\* "close" when the local state is closed and "reopen" when it is open; a
\* record never synced (empty original state) gets none.
C30_StateTransition ==
    (call.fn = "diffIssue" /\ call.pc = "done") =>
        LET original == call.original
            local == call.local
            emitted == call.res.StateTransition
        IN  /\ emitted # None <=>
                  (original.State # "" /\ original.State # local.State)
            /\ (emitted # None /\ local.State = "closed") => emitted = "close"
            /\ (emitted # None /\ local.State = "open") => emitted = "reopen"
            /\ original.State = "" => emitted = None

C30_Witness ==
    /\ call.fn = "diffIssue" /\ call.pc = "done"
    /\ call.original.State = "closed" /\ call.local.State = "open"
    /\ call.res.StateTransition = "reopen"
    /\ call.res.AddLabels = <<"docs">>

\* C35 (as claimed): for every content of the directories and every
\* identifier, loadAllPendingComments has an entry for the identifier
\* exactly when findPendingCommentForIssue finds a comment, and the two
\* name the same file.
C35_LookupsAgree ==
    (call.fn = "lookups" /\ call.pc = "done") =>
        /\ call.number \in DOMAIN call.res.all <=> call.res.one.found
        /\ call.res.one.found =>
              call.res.all[call.number].Path = call.res.one.Path

\* The comment files of the identifier in both directories.
CommentFilesOf(p, number) ==
    UNION {{<<d, name>> : name \in
                {m \in DOMAIN p[d] : m = CommentFile(number, <<>>)
                                        \/ \E s \in Slugs : m = CommentFile(number, s)}} :
            d \in Dirs}

\* The two lookups do agree when the identifier has one comment file in
\* all, with a body that is not empty.
C35_LookupsAgreeOnOneFile ==
    (/\ call.fn = "lookups" /\ call.pc = "done"
     /\ Cardinality(CommentFilesOf(call.p, call.number)) = 1
     /\ \A e \in CommentFilesOf(call.p, call.number) :
            TrimSpace(call.p[e[1]][e[2]]) # "") =>
        /\ call.res.one.found
        /\ call.number \in DOMAIN call.res.all
        /\ call.res.all[call.number] = call.res.one

\* The particular case of C35 (as claimed): when <id>.comment.md and
\* <id>-<slug>.comment.md are both in the directory of the record's state,
\* each with a body, both lookups return the file with the exact name.
C35_BothPreferExactName ==
    (/\ call.fn = "lookups" /\ call.pc = "done"
     /\ \E s \in Slugs :
           /\ {CommentFile(call.number, <<>>), CommentFile(call.number, s)}
                 \subseteq DOMAIN call.p[call.state]
           /\ TrimSpace(call.p[call.state][CommentFile(call.number, <<>>)]) # ""
           /\ TrimSpace(call.p[call.state][CommentFile(call.number, s)]) # "") =>
        /\ call.res.one.Path = <<call.state, CommentFile(call.number, <<>>)>>
        /\ call.number \in DOMAIN call.res.all
        /\ call.res.all[call.number].Path
              = <<call.state, CommentFile(call.number, <<>>)>>

====
